---- MODULE Spec2Model ----
(***************************************************************************)
(* Model of the accessibility checker's scan orchestrator                  *)
(* (BulkScannerAgent, src/src/agents/bulk-scanner.ts), its triage engines  *)
(* (DecisionAgent and EnhancedDecisionAgentFixed,                          *)
(* src/src/agents/decision-agent.ts; EnhancedDecisionAgent,                *)
(* src/unnamed/part_002) and the batch coordinators that partition the     *)
(* scan results by decision category.                                      *)
(*                                                                         *)
(* Spec       : the scanner. One agent, a bounded number of scanPages      *)
(*              calls run one after the other, workers interleaved at      *)
(*              every await of the source.                                 *)
(* SpecTriage : the triage engines and the batch coordinators, applied to  *)
(*              page scan results drawn from bounded sets; a reasoning     *)
(*              engine may decide its page again.                          *)
(* SpecBackoff: the scanner with one worker and up to MaxBackoffRetry      *)
(*              attempts per URL, for the waits between attempts.          *)
(* SpecMalformed : the triage entry points on well-typed but odd results   *)
(*              (unparseable url, unknown rule ids, no nodes).             *)
(* SpecInvalid: the scanner constructed with options below 1.             *)
(* SpecCancel : the scanner with a caller that gives up a running scan.    *)
(* SpecRepeat : one agent, one worker, scanPages called up to              *)
(*              MaxRepeatCalls times; getProgress.                         *)
(* SpecFair   : Spec on an event loop that runs every ready continuation.  *)
(* SpecCoordination : the communication hub and the prioritization         *)
(*              request of the enhanced orchestrator                       *)
(*              (src/src/agents/agent-communication.ts, src/unnamed/       *)
(*              part_000).                                                 *)
(* SpecWorkflow : decisions, deep analysis and reports of the enhanced     *)
(*              orchestrator and of main (src/main-orchestrator.ts).       *)
(***************************************************************************)
EXTENDS Integers, Sequences, FiniteSets, TLC

\* ------------------------------------------------------------------ bounds
MaxUrls == 2          \* longest URL list handed to scanPages
MaxCalls == 1         \* scanPages calls made on the one agent
MaxWorkersOpt == 2    \* largest maxWorkers option given to the constructor
MaxRetryOpt == 2      \* largest retryAttempts option given to the constructor
MaxViolations == 6    \* most violations on a page handed to a triage engine
MaxIncomplete == 6    \* most incomplete findings on such a page
MaxBatch == 4         \* longest list handed to a batch coordinator
MaxBackoffRetry == 4  \* largest retryAttempts option of the backoff runs
MaxDecideCalls == 2   \* makeDecisionWithReasoning calls made on one engine
MaxLowImpact == 5     \* most minor or moderate violations on a low-impact page
MaxWorkflowBatch == 3 \* most scan results a workflow is run on
MaxRepeatCalls == 2   \* scanPages calls made on the one agent of the repeated runs

\* ------------------------------------------------------- program constants
DefaultMaxWorkers == 5
DefaultRetryAttempts == 3

NoError == "<undefined>"
NoTask == [url |-> "<none>", index |-> -1]

Urls == {"https://a.example/x", "https://b.example/"}

\* messages of the errors an attempt can throw; "" stands for an error
\* whose message is empty or missing
ErrorMessages == {"Navigation failed", ""}

RECURSIVE SeqsUpTo(_, _)
SeqsUpTo(S, n) ==
  IF n = 0 THEN {<< >>}
  ELSE LET shorter == SeqsUpTo(S, n - 1)
       IN shorter \cup {Append(s, x) : s \in {t \in shorter : Len(t) = n - 1}, x \in S}

UrlLists == SeqsUpTo(Urls, MaxUrls)

\* ------------------------------------------------------------- page data
\* A finding: rule id, impact, the html of its nodes, its tags.
Finding(id, impact, nodes, tags) ==
  [id |-> id, impact |-> impact, nodes |-> nodes, tags |-> tags]

MkPage(url, violations, passes, incomplete, inapplicable, error) ==
  [url |-> url, violations |-> violations, passes |-> passes,
   incomplete |-> incomplete, inapplicable |-> inapplicable, error |-> error]

\* what axe can report for a page that loads: the four finding lists
AuditOutcomes ==
  { [violations |-> << >>, passes |-> <<"html-has-lang">>,
     incomplete |-> << >>, inapplicable |-> << >>],
    [violations |-> <<Finding("color-contrast", "serious", <<"<p>">>, {"wcag2aa"})>>,
     passes |-> << >>, incomplete |-> <<"color-contrast">>, inapplicable |-> <<"bypass">>],
    [violations |-> <<Finding("image-alt", "minor", <<"<img>">>, {"wcag2a"})>>,
     passes |-> << >>, incomplete |-> << >>, inapplicable |-> << >>] }

\* ----------------------------------------------------------------- state
VARIABLES
  options,              \* this.options after the constructor
  pc,                   \* where scanPages stands: idle, launch, awaitWorkers, cleanup
  urls,                 \* argument of the running (or last) scanPages call
  callNo,               \* number of scanPages calls started
  browser,              \* this.browser: "null" or "handle"
  browserProc,          \* the browser process: "none", "running", "closed"
  workQueue,            \* the shared queue of processWithWorkers
  workers,              \* worker id -> [pc, task, attempt, lastError]
  results,              \* this.results
  processedCount,       \* this.processedCount
  totalUrlsToProcess,   \* this.totalUrlsToProcess
  pending,              \* how the try block ended: none, return, launchError, saveError
  outcome,              \* how the last finished call ended: none, returned, or
                        \* the error it threw: launchError, saveError
  summary,              \* the BulkScanSummary of the last call that built one
  attemptLog,           \* history: worker id -> the attempts it finished, in order,
                        \* each [index, attempt, ok, wait]; wait is the delay
                        \* slept after the attempt before the next one, 0 if none
  inputPage,            \* the PageScanResult handed to a triage engine, or NoPage
  inputBatch,           \* the list handed to a batch coordinator
  agent,                \* the engine or coordinator that ran: "none" before
  returned,             \* the decision the engine returned, or NoDecision
  enhancedDecisions,    \* enhancedDecisions of makeEnhancedDecisions
  decisionResult,       \* the four lists a coordinator built, or NoCategorized
  patternHistory,       \* learningMemory.patternHistory: hostname -> occurrences
  calls,                \* calls made on the engine or coordinator so far
  previous,             \* the decision returned by the call before the last
  skipClaude,           \* options.skipClaude of the workflow
  phase,                \* the last phase the workflow finished: none,
                        \* decisions, analysis, reports
  analysisCalls,        \* the request lists processComplexIssues was called
                        \* with, in order
  reportInput,          \* the four lists handed to generateReport, or NoCategorized
  cancelled,            \* history: NotCancelled, or the number of URLs that
                        \* waited in the queue when the caller cancelled
  messageQueue,         \* hub.messageQueue: agent -> messages not yet cleared
  coordinationState,    \* hub.coordinationState: the correlation ids set
  idsIssued,            \* ids generated so far by the hub (message and correlation)
  requestUrls,          \* the urls array of performIntelligentScanning
  correlationId,        \* the id requestPrioritization returned, or NoId
  waitClock,            \* milliseconds waitForResponse has waited
  waitResult,           \* how waitForResponse ended: none, found, timeout
  prioritizedUrls       \* prioritizedUrls of performIntelligentScanning

scannerVars == <<options, pc, urls, callNo, browser, browserProc, workQueue,
                 workers, results, processedCount, totalUrlsToProcess, pending,
                 outcome, summary, attemptLog>>

triageVars == <<inputPage, inputBatch, agent, returned, enhancedDecisions,
                decisionResult, patternHistory, calls, previous>>

workflowVars == <<skipClaude, phase, analysisCalls, reportInput>>

hubVars == <<messageQueue, coordinationState, idsIssued, requestUrls,
             correlationId, waitClock, waitResult, prioritizedUrls>>

\* what the scanner, the triage engines, the workflow and the hub leave alone
outsideScanner == <<triageVars, workflowVars, hubVars, cancelled>>
outsideTriage == <<scannerVars, workflowVars, hubVars, cancelled>>
outsideWorkflow == <<scannerVars, hubVars, cancelled>>
outsideHub == <<scannerVars, triageVars, workflowVars, cancelled>>

vars == <<scannerVars, triageVars, workflowVars, hubVars, cancelled>>

\* ---------------------------------------------------------- constructor
\* options.x || d
OrDefault(x, d) == IF x = 0 THEN d ELSE x

Constructor(opts) ==
  [maxWorkers |-> OrDefault(opts.maxWorkers, DefaultMaxWorkers),
   retryAttempts |-> OrDefault(opts.retryAttempts, DefaultRetryAttempts)]

OptionInputs ==
  [maxWorkers : 1..MaxWorkersOpt, retryAttempts : 1..MaxRetryOpt]

NoSummary ==
  [totalPages |-> -1, passedPages |-> 0, minorIssues |-> 0,
   claudeAnalysisNeeded |-> 0, criticalIssues |-> 0, errors |-> 0]

NoWorkers == [w \in {} |-> 0]

NoPage == MkPage("<none>", << >>, << >>, << >>, << >>, NoError)
NoDecision == [category |-> "<none>"]
\* what stands for the decision of a call that threw instead of returning
Thrown == [category |-> "<thrown>"]
NoCategorized ==
  [passed |-> <<"<none>">>, minorIssues |-> << >>, claudeNeeded |-> << >>,
   critical |-> << >>]
NoHistory == [d \in {} |-> << >>]

\* no triage engine constructed or called
TriageIdle ==
  /\ inputPage = NoPage
  /\ inputBatch = << >>
  /\ agent = "none"
  /\ returned = NoDecision
  /\ enhancedDecisions = << >>
  /\ decisionResult = NoCategorized
  /\ patternHistory = NoHistory
  /\ calls = 0
  /\ previous = NoDecision

AgentTypes ==
  {"bulk-scanner", "decision-agent", "claude-analyst", "report-generator",
   "orchestrator"}

NotCancelled == -1

NoId == [kind |-> "<none>", n |-> 0]

\* no workflow started, a fresh hub, and no cancellation asked for
RestIdle ==
  /\ skipClaude = FALSE
  /\ phase = "none"
  /\ analysisCalls = << >>
  /\ reportInput = NoCategorized
  /\ cancelled = NotCancelled
  /\ messageQueue = [a \in AgentTypes |-> << >>]
  /\ coordinationState = {}
  /\ idsIssued = 0
  /\ requestUrls = << >>
  /\ correlationId = NoId
  /\ waitClock = 0
  /\ waitResult = "none"
  /\ prioritizedUrls = << >>

Init ==
  /\ options \in {Constructor(o) : o \in OptionInputs}
  /\ pc = "idle"
  /\ urls = << >>
  /\ callNo = 0
  /\ browser = "null"
  /\ browserProc = "none"
  /\ workQueue = << >>
  /\ workers = NoWorkers
  /\ results = << >>
  /\ processedCount = 0
  /\ totalUrlsToProcess = 0
  /\ pending = "none"
  /\ outcome = "none"
  /\ summary = NoSummary
  /\ attemptLog = NoWorkers
  /\ TriageIdle
  /\ RestIdle

\* ------------------------------------------------------------ scan-config
criticalViolationsLimit == 5
incompleteResultsLimit == 5
complexIssuesForClaudeAnalysis ==
  {"color-contrast", "focus-order-semantics", "keyboard-navigation",
   "aria-hidden-focus", "visual-only-information"}

\* --------------------------------------------------------- sequence helpers
Range(s) == {s[i] : i \in DOMAIN s}

Filter(s, Keep(_)) == SelectSeq(s, Keep)

Count(s, Keep(_)) == Cardinality({i \in DOMAIN s : Keep(s[i])})

IsError(page) == page.error # NoError /\ page.error # ""

\* ------------------------------------------- BulkScannerAgent, pure parts
ScannerVisualRules ==
  {"color-contrast", "focus-order-semantics", "keyboard-navigation",
   "aria-hidden-focus", "visual-only-information", "focus-management",
   "modal-focus-trap", "skip-link"}

ScannerNeedsHumanAnalysis(scanResult) ==
  LET IsCritical(v) == v.impact = "critical"
      IsComplex(v) == v.id \in complexIssuesForClaudeAnalysis
      IsVisual(v) == v.id \in ScannerVisualRules
  IN IF IsError(scanResult) THEN TRUE
     ELSE IF Count(scanResult.violations, IsCritical) >= criticalViolationsLimit THEN TRUE
     ELSE IF Count(scanResult.violations, IsComplex) > 0 THEN TRUE
     ELSE IF Len(scanResult.incomplete) > incompleteResultsLimit THEN TRUE
     ELSE Count(scanResult.violations, IsVisual) > 0

\* the list categorizeResults pushes one WorkerResult's page into
ScannerCategoryOf(r) ==
  LET IsSevere(v) == v.impact = "serious" \/ v.impact = "critical"
  IN IF IsError(r.result) THEN "critical"
     ELSE IF Len(r.result.violations) = 0 THEN "passed"
     ELSE IF r.needsClaudeAnalysis THEN "claudeNeeded"
     ELSE IF Count(r.result.violations, IsSevere) > 0 THEN "critical"
     ELSE "minorIssues"

CategorizeResults(rs) ==
  LET Pick(c) ==
        LET In(r) == ScannerCategoryOf(r) = c
            kept == Filter(rs, In)
        IN [i \in DOMAIN kept |-> kept[i].result]
  IN [passed |-> Pick("passed"), minorIssues |-> Pick("minorIssues"),
      claudeNeeded |-> Pick("claudeNeeded"), critical |-> Pick("critical")]

GenerateSummary(totalPages, rs) ==
  LET categorized == CategorizeResults(rs)
  IN [totalPages |-> totalPages,
      passedPages |-> Len(categorized.passed),
      minorIssues |-> Len(categorized.minorIssues),
      claudeAnalysisNeeded |-> Len(categorized.claudeNeeded),
      criticalIssues |-> Len(categorized.critical),
      errors |-> 0]

\* mutant of ErrorResult: the message is stored without the fallback text
ErrorResultNoFallback(url, message) ==
  MkPage(url, << >>, << >>, << >>, << >>, message)

\* the result scanSinglePage returns after its last attempt failed
ErrorResult(url, message) ==
  MkPage(url, << >>, << >>, << >>, << >>,
         IF message = "" THEN "Unknown error" ELSE message)

\* the result performScan returns for a page that loaded
ScanResult(url, audit) ==
  MkPage(url, audit.violations, audit.passes, audit.incomplete,
         audit.inapplicable, NoError)

\* ------------------------------------------------- scanPages, main thread
\* scanPages up to its first await (puppeteer.launch)
ScanPages(u) ==
  /\ pc = "idle"
  /\ callNo < MaxCalls
  /\ pc' = "launch"
  /\ urls' = u
  /\ callNo' = callNo + 1
  /\ totalUrlsToProcess' = Len(u)
  /\ workQueue' = << >>
  /\ workers' = NoWorkers
  /\ attemptLog' = NoWorkers
  /\ pending' = "none"
  /\ UNCHANGED <<options, browser, browserProc, results, processedCount, outcome,
                 summary>>
  /\ UNCHANGED outsideScanner

RECURSIVE Dedup(_)
Dedup(s) ==
  IF s = << >> THEN << >>
  ELSE LET d == Dedup(SubSeq(s, 1, Len(s) - 1))
       IN IF s[Len(s)] \in Range(d) THEN d ELSE Append(d, s[Len(s)])

\* mutant of Tasks: the URL list is deduplicated before it is queued
TasksDeduplicated(u) ==
  LET d == Dedup(u)
  IN [i \in DOMAIN d |-> [url |-> d[i], index |-> i - 1]]

Tasks(u) == [i \in DOMAIN u |-> [url |-> u[i], index |-> i - 1]]

\* mutant of WorkerIds: the creation loop runs once too often
WorkerIdsOffByOne(maxWorkers) == 0..maxWorkers

WorkerIds(maxWorkers) == 0..(maxWorkers - 1)

\* createWorker up to its first await: the loop test, the shift and the
\* start of attempt 1, or the exit when the queue is empty; with
\* retryAttempts below 1 the attempt loop of scanSinglePage is not entered
\* and the await is that of scanSinglePage itself
EnterLoop(queue) ==
  IF Len(queue) > 0
  THEN IF options.retryAttempts >= 1
       THEN [pc |-> "newPage", task |-> Head(queue), attempt |-> 1,
             lastError |-> NoError]
       ELSE [pc |-> "noAttempt", task |-> Head(queue), attempt |-> 0,
             lastError |-> NoError]
  ELSE [pc |-> "done", task |-> NoTask, attempt |-> 0, lastError |-> NoError]

\* the for loop of processWithWorkers: the workers are created in order and
\* each runs synchronously up to its first await
RECURSIVE CreateWorkers(_, _, _)
CreateWorkers(i, ids, st) ==
  IF i \notin ids THEN st
  ELSE LET wk == EnterLoop(st.queue)
       IN CreateWorkers(i + 1, ids,
            [queue |-> IF wk.pc # "done" THEN Tail(st.queue) ELSE st.queue,
             ws |-> [w \in (DOMAIN st.ws) \cup {i} |-> IF w = i THEN wk ELSE st.ws[w]]])

\* mutant of ProcessWithWorkers: the loop test and the read of the head are
\* separated from the shift, so every worker created reads the same head
\* before the first shift happens
ProcessWithWorkersSharedHead(tasks, maxWorkers) ==
  [queue |-> IF tasks = << >> THEN tasks ELSE Tail(tasks),
   ws |-> [w \in WorkerIds(maxWorkers) |-> EnterLoop(tasks)]]

ProcessWithWorkers(tasks, maxWorkers) ==
  CreateWorkers(0, WorkerIds(maxWorkers), [queue |-> tasks, ws |-> NoWorkers])

\* puppeteer.launch resolves: the task list is built and the pool started
LaunchOk ==
  /\ pc = "launch"
  /\ browser' = "handle"
  /\ browserProc' = "running"
  /\ LET st == ProcessWithWorkers(Tasks(urls), options.maxWorkers)
     IN /\ workQueue' = st.queue
        /\ workers' = st.ws
        /\ attemptLog' = [w \in DOMAIN st.ws |-> << >>]
  /\ pc' = "awaitWorkers"
  /\ UNCHANGED <<options, urls, callNo, results, processedCount,
                 totalUrlsToProcess, pending, outcome, summary>>
  /\ UNCHANGED outsideScanner

\* mutant of LaunchFail: the launch error is swallowed and the pool is
\* started without a browser
LaunchFailSwallowed ==
  /\ pc = "launch"
  /\ LET st == ProcessWithWorkers(Tasks(urls), options.maxWorkers)
     IN /\ workQueue' = st.queue
        /\ workers' = st.ws
        /\ attemptLog' = [w \in DOMAIN st.ws |-> << >>]
  /\ pc' = "awaitWorkers"
  /\ UNCHANGED <<options, urls, callNo, browser, browserProc, results,
                 processedCount, totalUrlsToProcess, pending, outcome, summary>>
  /\ UNCHANGED outsideScanner

\* puppeteer.launch rejects: catch rethrows, finally runs
LaunchFail ==
  /\ pc = "launch"
  /\ pending' = "launchError"
  /\ pc' = "cleanup"
  /\ UNCHANGED <<options, urls, callNo, browser, browserProc, workQueue, workers,
                 results, processedCount, totalUrlsToProcess, outcome, summary,
                 attemptLog>>
  /\ UNCHANGED outsideScanner

AllWorkersDone == \A w \in DOMAIN workers : workers[w].pc = "done"

\* Promise.all(workers) resolves; generateSummary and saveResults run
\* without an await; saveOk says whether the writes of saveResults succeed
SummariseAndSave(saveOk) ==
  /\ pc = "awaitWorkers"
  /\ AllWorkersDone
  /\ summary' = GenerateSummary(Len(urls), results)
  /\ pending' = IF saveOk THEN "return" ELSE "saveError"
  /\ pc' = "cleanup"
  /\ UNCHANGED <<options, urls, callNo, browser, browserProc, workQueue, workers,
                 results, processedCount, totalUrlsToProcess, outcome, attemptLog>>
  /\ UNCHANGED outsideScanner

\* mutant of Cleanup: cleanup() is called at the end of the try block
\* instead of in a finally block
CleanupOnReturnOnly ==
  /\ pc = "cleanup"
  /\ IF browser # "null" /\ pending = "return"
     THEN browserProc' = "closed" /\ browser' = "null"
     ELSE UNCHANGED <<browser, browserProc>>
  /\ outcome' = IF pending = "return" THEN "returned" ELSE pending
  /\ pc' = "idle"
  /\ UNCHANGED <<options, urls, callNo, workQueue, workers, results,
                 processedCount, totalUrlsToProcess, pending, summary, attemptLog>>
  /\ UNCHANGED outsideScanner

\* the finally block: cleanup(), then the call returns or throws
Cleanup ==
  /\ pc = "cleanup"
  /\ IF browser # "null"
     THEN browserProc' = "closed" /\ browser' = "null"
     ELSE UNCHANGED <<browser, browserProc>>
  /\ outcome' = IF pending = "return" THEN "returned" ELSE pending
  /\ pc' = "idle"
  /\ UNCHANGED <<options, urls, callNo, workQueue, workers, results,
                 processedCount, totalUrlsToProcess, pending, summary, attemptLog>>
  /\ UNCHANGED outsideScanner

\* ------------------------------------------------------------ the workers
SetWorker(w, wk) == [workers EXCEPT ![w] = wk]

\* this.delay(2000 * attempt) after the failed attempt, in milliseconds
BackoffDelay(attempt) == 2000 * attempt

\* createWorker after scanSinglePage returned: the result is pushed and
\* counted, then the worker sleeps for the rate limit.  ok tells whether the
\* last attempt returned (try) or threw (catch); index and call are history
\* fields, not part of WorkerResult.
RecordResult(w, res, ok) ==
  /\ attemptLog' = [attemptLog EXCEPT ![w] = Append(@,
        [index |-> workers[w].task.index, attempt |-> workers[w].attempt,
         ok |-> ok, wait |-> 0])]
  /\ results' = Append(results,
        [url |-> workers[w].task.url, result |-> res,
         needsClaudeAnalysis |-> ScannerNeedsHumanAnalysis(res),
         index |-> workers[w].task.index, call |-> callNo])
  /\ processedCount' = processedCount + 1
  /\ workers' = SetWorker(w, [workers[w] EXCEPT !.pc = "rateDelay"])

\* mutant of AttemptFailed: the retry loop runs one attempt too many
AttemptFailedOffByOne(w, message) ==
  IF workers[w].attempt <= options.retryAttempts
  THEN /\ workers' = SetWorker(w, [workers[w] EXCEPT !.pc = "backoff", !.lastError = message])
       /\ attemptLog' = [attemptLog EXCEPT ![w] = Append(@,
             [index |-> workers[w].task.index, attempt |-> workers[w].attempt,
              ok |-> FALSE, wait |-> BackoffDelay(workers[w].attempt)])]
       /\ UNCHANGED <<results, processedCount>>
  ELSE RecordResult(w, ErrorResult(workers[w].task.url, message), FALSE)

\* the catch block of scanSinglePage: the page, if any, is closed, the error
\* kept, and the loop either backs off or ends with the error result
AttemptFailed(w, message) ==
  IF workers[w].attempt < options.retryAttempts
  THEN /\ workers' = SetWorker(w, [workers[w] EXCEPT !.pc = "backoff", !.lastError = message])
       /\ attemptLog' = [attemptLog EXCEPT ![w] = Append(@,
             [index |-> workers[w].task.index, attempt |-> workers[w].attempt,
              ok |-> FALSE, wait |-> BackoffDelay(workers[w].attempt)])]
       /\ UNCHANGED <<results, processedCount>>
  ELSE RecordResult(w, ErrorResult(workers[w].task.url, message), FALSE)

\* browser.newPage() resolves
NewPageOk(w) ==
  /\ pc = "awaitWorkers"
  /\ workers[w].pc = "newPage"
  /\ browser = "handle"
  /\ workers' = SetWorker(w, [workers[w] EXCEPT !.pc = "scanning"])
  /\ UNCHANGED <<options, pc, urls, callNo, browser, browserProc, workQueue,
                 results, processedCount, totalUrlsToProcess, pending, outcome,
                 summary, attemptLog>>
  /\ UNCHANGED outsideScanner

\* browser.newPage() rejects
NewPageFail(w, message) ==
  /\ pc = "awaitWorkers"
  /\ workers[w].pc = "newPage"
  /\ AttemptFailed(w, message)
  /\ UNCHANGED <<options, pc, urls, callNo, browser, browserProc, workQueue,
                 totalUrlsToProcess, pending, outcome, summary>>
  /\ UNCHANGED outsideScanner

\* performScan and page.close() resolve
ScanOk(w, audit) ==
  /\ pc = "awaitWorkers"
  /\ workers[w].pc = "scanning"
  /\ RecordResult(w, ScanResult(workers[w].task.url, audit), TRUE)
  /\ UNCHANGED <<options, pc, urls, callNo, browser, browserProc, workQueue,
                 totalUrlsToProcess, pending, outcome, summary>>
  /\ UNCHANGED outsideScanner

\* setUserAgent, setViewport, performScan or page.close() rejects
ScanFail(w, message) ==
  /\ pc = "awaitWorkers"
  /\ workers[w].pc = "scanning"
  /\ AttemptFailed(w, message)
  /\ UNCHANGED <<options, pc, urls, callNo, browser, browserProc, workQueue,
                 totalUrlsToProcess, pending, outcome, summary>>
  /\ UNCHANGED outsideScanner

\* the backoff delay ends: the next attempt of the same URL starts
BackoffDone(w) ==
  /\ pc = "awaitWorkers"
  /\ workers[w].pc = "backoff"
  /\ LET wk == [workers[w] EXCEPT !.pc = "newPage", !.attempt = @ + 1]
     IN workers' = SetWorker(w, wk)
  /\ UNCHANGED <<options, pc, urls, callNo, browser, browserProc, workQueue,
                 results, processedCount, totalUrlsToProcess, pending, outcome,
                 summary, attemptLog>>
  /\ UNCHANGED outsideScanner

\* mutant of RateDelayDone: the worker blocks on an empty queue instead of
\* leaving its loop
RateDelayDoneWaitsForWork(w) ==
  /\ pc = "awaitWorkers"
  /\ workers[w].pc = "rateDelay"
  /\ workQueue # << >>
  /\ LET wk == EnterLoop(workQueue)
     IN /\ workers' = SetWorker(w, wk)
        /\ workQueue' = IF wk.pc # "done" THEN Tail(workQueue) ELSE workQueue
  /\ UNCHANGED <<options, pc, urls, callNo, browser, browserProc, results,
                 processedCount, totalUrlsToProcess, pending, outcome, summary,
                 attemptLog>>
  /\ UNCHANGED outsideScanner

\* the rate-limit delay ends: the loop test, then the next shift or the exit
RateDelayDone(w) ==
  /\ pc = "awaitWorkers"
  /\ workers[w].pc = "rateDelay"
  /\ LET wk == EnterLoop(workQueue)
     IN /\ workers' = SetWorker(w, wk)
        /\ workQueue' = IF wk.pc # "done" THEN Tail(workQueue) ELSE workQueue
  /\ UNCHANGED <<options, pc, urls, callNo, browser, browserProc, results,
                 processedCount, totalUrlsToProcess, pending, outcome, summary,
                 attemptLog>>
  /\ UNCHANGED outsideScanner

WorkerStep(w) ==
  \/ NewPageOk(w)
  \/ \E m \in ErrorMessages : NewPageFail(w, m)
  \/ \E a \in AuditOutcomes : ScanOk(w, a)
  \/ \E m \in ErrorMessages : ScanFail(w, m)
  \/ BackoffDone(w)
  \/ RateDelayDone(w)

Next ==
  \/ \E u \in UrlLists : ScanPages(u)
  \/ LaunchOk
  \/ LaunchFail
  \/ \E w \in DOMAIN workers : WorkerStep(w)
  \/ \E ok \in BOOLEAN : SummariseAndSave(ok)
  \/ Cleanup

Spec == Init /\ [][Next]_vars

\* ---- the scanner constructed with options below 1
\* scanSinglePage returned without an attempt: lastError is null, the error
\* of the result is the fallback text, and createWorker pushes and counts it
NoAttempt(w) ==
  /\ pc = "awaitWorkers"
  /\ workers[w].pc = "noAttempt"
  /\ results' = Append(results,
        [url |-> workers[w].task.url, result |-> ErrorResult(workers[w].task.url, ""),
         needsClaudeAnalysis |->
           ScannerNeedsHumanAnalysis(ErrorResult(workers[w].task.url, "")),
         index |-> workers[w].task.index, call |-> callNo])
  /\ processedCount' = processedCount + 1
  /\ workers' = SetWorker(w, [workers[w] EXCEPT !.pc = "rateDelay"])
  /\ UNCHANGED <<options, pc, urls, callNo, browser, browserProc, workQueue,
                 totalUrlsToProcess, pending, outcome, summary, attemptLog>>
  /\ UNCHANGED outsideScanner

\* what a caller can pass for maxWorkers and retryAttempts: 1, or -1
InvalidOptionInputs ==
  [maxWorkers : {-1, 1}, retryAttempts : {-1, 1}]

InitInvalid ==
  /\ options \in {Constructor(o) : o \in InvalidOptionInputs}
  /\ pc = "idle"
  /\ urls = << >>
  /\ callNo = 0
  /\ browser = "null"
  /\ browserProc = "none"
  /\ workQueue = << >>
  /\ workers = NoWorkers
  /\ results = << >>
  /\ processedCount = 0
  /\ totalUrlsToProcess = 0
  /\ pending = "none"
  /\ outcome = "none"
  /\ summary = NoSummary
  /\ attemptLog = NoWorkers
  /\ TriageIdle
  /\ RestIdle

NextInvalid ==
  \/ Next
  \/ \E w \in DOMAIN workers : NoAttempt(w)

SpecInvalid == InitInvalid /\ [][NextInvalid]_vars

\* ---- the scanner with a caller that wants the running scan cancelled
\* scanPages(urls) takes no signal and the agent has no method that stops a
\* scan: the loop test of createWorker reads workQueue.length only.  The
\* caller's wish to cancel therefore changes no field of the agent; it is
\* recorded in the history variable alone.
Cancel ==
  /\ pc = "awaitWorkers"
  /\ cancelled = NotCancelled
  /\ cancelled' = Len(workQueue)
  /\ UNCHANGED <<scannerVars, triageVars, workflowVars, hubVars>>

NextCancel ==
  \/ Next
  \/ Cancel

SpecCancel == Init /\ [][NextCancel]_vars

\* ---- progress, and the agent used for one scan after the other
\* Math.round((processedCount / total) * 100) for total > 0: half rounds up
RoundedPercent(count, total) == (200 * count + total) \div (2 * total)

\* getProgress of bulk-scanner.ts
GetProgress ==
  [processed |-> processedCount,
   total |-> totalUrlsToProcess,
   percentage |-> IF totalUrlsToProcess > 0
                  THEN RoundedPercent(processedCount, totalUrlsToProcess)
                  ELSE 0]

\* getProgress of the compiled BulkScannerAgent: the total is taken from the
\* results gathered so far
GetProgressCompiled ==
  LET total == Len(results) + processedCount
  IN [processed |-> processedCount,
      total |-> total,
      percentage |-> IF total > 0 THEN RoundedPercent(processedCount, total)
                     ELSE 0]

\* scanPages called again on the agent after an earlier call ended: the same
\* first step; results and processedCount are fields of the agent and are
\* set in its constructor only
ScanPagesAgain(u) ==
  /\ pc = "idle"
  /\ callNo >= MaxCalls
  /\ callNo < MaxRepeatCalls
  /\ pc' = "launch"
  /\ urls' = u
  /\ callNo' = callNo + 1
  /\ totalUrlsToProcess' = Len(u)
  /\ workQueue' = << >>
  /\ workers' = NoWorkers
  /\ attemptLog' = NoWorkers
  /\ pending' = "none"
  /\ UNCHANGED <<options, browser, browserProc, results, processedCount, outcome,
                 summary>>
  /\ UNCHANGED outsideScanner

InitRepeat ==
  /\ options = Constructor([maxWorkers |-> 1, retryAttempts |-> 1])
  /\ pc = "idle"
  /\ urls = << >>
  /\ callNo = 0
  /\ browser = "null"
  /\ browserProc = "none"
  /\ workQueue = << >>
  /\ workers = NoWorkers
  /\ results = << >>
  /\ processedCount = 0
  /\ totalUrlsToProcess = 0
  /\ pending = "none"
  /\ outcome = "none"
  /\ summary = NoSummary
  /\ attemptLog = NoWorkers
  /\ TriageIdle
  /\ RestIdle

NextRepeat ==
  \/ Next
  \/ \E u \in UrlLists : ScanPagesAgain(u)

SpecRepeat == InitRepeat /\ [][NextRepeat]_vars

\* ---- the scanner on an event loop that runs every continuation that is
\* ---- ready: the launch, each audit attempt and each timer end at some
\* ---- time, by resolving or by rejecting.  Whether the caller calls
\* ---- scanPages at all is left open.
Settle ==
  \/ LaunchOk
  \/ LaunchFail
  \/ \E w \in DOMAIN workers : WorkerStep(w)
  \/ \E ok \in BOOLEAN : SummariseAndSave(ok)
  \/ Cleanup

SpecFair == Init /\ [][Next]_vars /\ WF_vars(Settle)

\* ---- the retry loop on its own: one worker, retryAttempts up to
\* ---- MaxBackoffRetry
InitBackoff ==
  /\ options \in {Constructor([maxWorkers |-> 1, retryAttempts |-> r]) :
                    r \in 1..MaxBackoffRetry}
  /\ pc = "idle"
  /\ urls = << >>
  /\ callNo = 0
  /\ browser = "null"
  /\ browserProc = "none"
  /\ workQueue = << >>
  /\ workers = NoWorkers
  /\ results = << >>
  /\ processedCount = 0
  /\ totalUrlsToProcess = 0
  /\ pending = "none"
  /\ outcome = "none"
  /\ summary = NoSummary
  /\ attemptLog = NoWorkers
  /\ TriageIdle
  /\ RestIdle

SpecBackoff == InitBackoff /\ [][Next]_vars

\* ================================================================ triage
\* ---- the findings axe can report as violations, in rule order; a page
\* ---- reports each rule at most once
RuleCatalog ==
  <<Finding("aria-allowed-attr", "critical", <<"<button aria-checked=true>">>,
            {"cat.aria", "wcag2a", "wcag412"}),
    Finding("aria-hidden-focus", "serious", <<"<div aria-hidden=true>">>,
            {"cat.name-role-value", "wcag2a", "wcag412"}),
    Finding("aria-input-field-name", "serious", <<"<div role=textbox>">>,
            {"cat.aria", "wcag2a", "wcag412"}),
    Finding("color-contrast", "serious", <<"<p>", "<span>">>,
            {"cat.color", "wcag2aa", "wcag143"}),
    Finding("heading-order", "moderate", <<"<h3>">>,
            {"cat.semantics", "best-practice"}),
    Finding("html-has-lang", "serious", <<"<html>">>,
            {"cat.language", "wcag2a", "wcag311"}),
    Finding("image-alt", "critical", <<"<img src=a.png>">>,
            {"cat.text-alternatives", "wcag2a", "wcag111"}),
    Finding("label", "critical", <<"<input type=text>">>,
            {"cat.forms", "wcag2a", "wcag412"}),
    Finding("region", "moderate", <<"<div>">>,
            {"cat.keyboard", "best-practice"}),
    Finding("tabindex", "serious", <<"<div tabindex=5>">>,
            {"cat.keyboard", "best-practice"}) >>

\* the pairs <<id, keyword>> with id.includes(keyword), over the rule ids of
\* RuleCatalog and the keywords the engines look for
IdIncludesTable ==
  { <<"aria-allowed-attr", "aria">>,
    <<"aria-hidden-focus", "aria-hidden-focus">>,
    <<"aria-hidden-focus", "focus">>, <<"aria-hidden-focus", "aria">>,
    <<"aria-input-field-name", "aria">>,
    <<"aria-input-field-name", "input">>,
    <<"color-contrast", "color-contrast">>, <<"color-contrast", "color">>,
    <<"heading-order", "heading">>, <<"heading-order", "heading-order">>,
    <<"html-has-lang", "html-has-lang">>, <<"image-alt", "image-alt">>,
    <<"label", "label">>, <<"tabindex", "tabindex">>,
    <<"landmark-unique", "landmark">> }

\* the pairs <<html, keyword>> with html.includes(keyword), over the node
\* html of RuleCatalog
HtmlIncludesTable ==
  { <<"<button aria-checked=true>", "button">>,
    <<"<input type=text>", "input">>, <<"<input type=text>", "<input">>,
    <<"<nav>", "nav">> }

IdIncludes(id, keyword) == <<id, keyword>> \in IdIncludesTable
HtmlIncludes(html, keyword) == <<html, keyword>> \in HtmlIncludesTable

\* whether new URL(url) returns: it throws a TypeError for a string that is
\* not an absolute URL
ParsesAsUrl(url) == url \in Urls

\* new URL(url).hostname
Hostname(url) ==
  CASE url = "https://a.example/x" -> "a.example"
    [] url = "https://b.example/" -> "b.example"

\* ---- the page scan results handed to the engines
\* the findings of RuleCatalog at the positions in I, from position k on
RECURSIVE PickRules(_, _)
PickRules(I, k) ==
  IF k > Len(RuleCatalog) THEN << >>
  ELSE IF k \in I THEN <<RuleCatalog[k]>> \o PickRules(I, k + 1)
  ELSE PickRules(I, k + 1)

ViolationLists ==
  {PickRules(I, 1) :
     I \in {J \in SUBSET DOMAIN RuleCatalog : Cardinality(J) <= MaxViolations}}

IncompleteIds ==
  <<"color-contrast", "aria-valid-attr-value", "duplicate-id", "frame-tested",
    "link-in-text-block", "video-caption", "scrollable-region-focusable",
    "label-content-name-mismatch">>

IncompleteLists ==
  {[i \in 1..n |-> Finding(IncompleteIds[i], "serious", <<"<div>">>, {"wcag2a"})] :
     n \in 0..MaxIncomplete}

ScanErrors == {NoError, "Navigation failed"}

\* findings of minor or moderate impact that no keyword of the engines
\* matches
LowImpactCatalog ==
  <<Finding("duplicate-id", "minor", <<"<div id=a>">>, {"cat.parsing", "wcag2a"}),
    Finding("meta-viewport", "moderate", <<"<meta name=viewport>">>,
            {"cat.sensory-and-visual-cues", "best-practice"}),
    Finding("scope-attr-valid", "moderate", <<"<td scope=x>">>,
            {"cat.tables", "best-practice"}),
    Finding("table-duplicate-name", "minor", <<"<table>">>,
            {"cat.tables", "best-practice"}),
    Finding("list", "moderate", <<"<ul>">>, {"cat.structure", "wcag2a"}),
    Finding("dlitem", "moderate", <<"<dt>">>, {"cat.structure", "wcag2a"})>>

\* pages with up to MaxLowImpact such findings, alone or followed by one
\* serious violation
LowImpactPages ==
  {MkPage("https://a.example/x", SubSeq(LowImpactCatalog, 1, k) \o s, << >>,
          << >>, << >>, NoError) :
     k \in 1..MaxLowImpact, s \in {<< >>, PickRules({6}, 1)}}

\* pages whose violations are moderate findings about the structure of the
\* document
StructurePages ==
  LET landmarkUnique == Finding("landmark-unique", "moderate", <<"<nav>">>,
                                {"cat.semantics", "best-practice"})
  IN { MkPage("https://a.example/x", <<landmarkUnique>>, << >>, << >>, << >>,
              NoError),
       MkPage("https://a.example/x", PickRules({5}, 1) \o <<landmarkUnique>>,
              << >>, << >>, << >>, NoError) }

TriagePages ==
  {MkPage(u, v, << >>, inc, << >>, e) :
     u \in Urls, v \in ViolationLists, inc \in IncompleteLists, e \in ScanErrors}
  \cup LowImpactPages \cup StructurePages

\* the pages a batch is made of: a clean page at either URL, a page with one
\* moderate violation, a page with a color-contrast violation, a page with
\* five serious or critical violations, and a failed scan
BatchPages ==
  { MkPage("https://a.example/x", << >>, << >>, << >>, << >>, NoError),
    MkPage("https://b.example/", << >>, << >>, << >>, << >>, NoError),
    MkPage("https://a.example/x", PickRules({9}, 1), << >>, << >>, << >>, NoError),
    MkPage("https://a.example/x", PickRules({4}, 1), << >>, << >>, << >>, NoError),
    MkPage("https://b.example/", PickRules({1, 3, 6, 7, 8}, 1), << >>, << >>, << >>,
           NoError),
    MkPage("https://a.example/x", << >>, << >>, << >>, << >>, "Navigation failed") }

Batches == SeqsUpTo(BatchPages, MaxBatch)

\* ---- helpers shared by the three engines (each class has its own copy)
IsSevere(v) == v.impact = "critical" \/ v.impact = "serious"

IsComplexViolation(v) ==
  \E issue \in complexIssuesForClaudeAnalysis :
     IdIncludes(v.id, issue) \/ issue \in v.tags

GetCriticalViolations(violations) == Filter(violations, IsSevere)

GetComplexViolations(violations) == Filter(violations, IsComplexViolation)

Ids(findings) == [i \in DOMAIN findings |-> findings[i].id]

RECURSIVE TotalNodes(_)
TotalNodes(violations) ==
  IF violations = << >> THEN 0
  ELSE Len(Head(violations).nodes) + TotalNodes(Tail(violations))

VisualVerificationRules ==
  {"color-contrast", "focus-visible", "focus-order-semantics",
   "keyboard-navigation", "aria-hidden-focus", "visual-only-information",
   "bypass", "landmark-one-main", "page-has-heading-one"}

NeedsVisualVerification(v) ==
  \E rule \in VisualVerificationRules : IdIncludes(v.id, rule)

\* a confidence, weight or score is the fraction num / den
Frac(num, den) == [num |-> num, den |-> den]
FracEq(a, b) == a.num * b.den = b.num * a.den
FracLess(a, b) == a.num * b.den < b.num * a.den

\* ------------------------------------------------------------ DecisionAgent
DA_NeedsHumanAnalysis(violations, incomplete) ==
  \/ Len(incomplete) > incompleteResultsLimit
  \/ \E i \in DOMAIN violations : NeedsVisualVerification(violations[i])

DA_CalculatePriority(violations) ==
  LET IsCritical(v) == v.impact = "critical"
      IsSerious(v) == v.impact = "serious"
      IsModerate(v) == v.impact = "moderate"
      criticalCount == Count(violations, IsCritical)
      seriousCount == Count(violations, IsSerious)
      moderateCount == Count(violations, IsModerate)
  IN IF criticalCount > 0 THEN "Critical"
     ELSE IF seriousCount >= 3 \/ (seriousCount >= 1 /\ moderateCount >= 5) THEN "High"
     ELSE IF seriousCount >= 1 \/ moderateCount >= 3 THEN "Medium"
     ELSE "Low"

\* baseHours is counted in quarters of an hour
DA_EstimateEffort(violations) ==
  LET totalNodes == TotalNodes(violations)
      complexCount == Len(GetComplexViolations(violations))
      criticalCount == Len(GetCriticalViolations(violations))
      extraNodes == IF totalNodes > Len(violations)
                    THEN totalNodes - Len(violations) ELSE 0
      baseHours == criticalCount * 8 + complexCount * 12
                   + (Len(violations) - criticalCount - complexCount) * 2
                   + extraNodes
  IN IF baseHours <= 4 THEN "0.5-1 hours"
     ELSE IF baseHours <= 8 THEN "1-2 hours"
     ELSE IF baseHours <= 16 THEN "2-4 hours"
     ELSE IF baseHours <= 32 THEN "4-8 hours"
     ELSE IF baseHours <= 64 THEN "8-16 hours"
     ELSE "16+ hours"

DA_MakeDecision(page) ==
  LET violations == page.violations
      incomplete == page.incomplete
      criticalViolations == GetCriticalViolations(violations)
      complexViolations == GetComplexViolations(violations)
  IN IF IsError(page)
     THEN [url |-> page.url, category |-> "CRITICAL", priority |-> "Critical",
           estimatedEffort |-> "2-4 hours", complexViolations |-> << >>,
           criticalViolations |-> <<"scan-error">>]
     ELSE IF Len(criticalViolations) >= criticalViolationsLimit
     THEN [url |-> page.url, category |-> "CRITICAL", priority |-> "Critical",
           estimatedEffort |-> DA_EstimateEffort(violations),
           complexViolations |-> Ids(complexViolations),
           criticalViolations |-> Ids(criticalViolations)]
     ELSE IF DA_NeedsHumanAnalysis(violations, incomplete) \/ Len(complexViolations) > 0
     THEN [url |-> page.url, category |-> "CLAUDE_NEEDED",
           priority |-> DA_CalculatePriority(violations),
           estimatedEffort |-> DA_EstimateEffort(violations),
           complexViolations |-> Ids(complexViolations),
           criticalViolations |-> Ids(criticalViolations)]
     ELSE IF Len(violations) = 0
     THEN [url |-> page.url, category |-> "PASSED", priority |-> "Low",
           estimatedEffort |-> "0 hours", complexViolations |-> << >>,
           criticalViolations |-> << >>]
     ELSE [url |-> page.url, category |-> "MINOR_ISSUES",
           priority |-> DA_CalculatePriority(violations),
           estimatedEffort |-> DA_EstimateEffort(violations),
           complexViolations |-> << >>, criticalViolations |-> << >>]

EmptyDecisionResult ==
  [passed |-> << >>, minorIssues |-> << >>, claudeNeeded |-> << >>,
   critical |-> << >>]

\* mutant of DA_PushByCategory: the switch has no case for CLAUDE_NEEDED
DA_PushWithoutClaudeCase(result, page, category) ==
  CASE category = "PASSED" -> [result EXCEPT !.passed = Append(@, page)]
    [] category = "MINOR_ISSUES" -> [result EXCEPT !.minorIssues = Append(@, page)]
    [] category = "CRITICAL" -> [result EXCEPT !.critical = Append(@, page)]
    [] OTHER -> result

\* the switch of categorizePages
DA_PushByCategory(result, page, category) ==
  CASE category = "PASSED" -> [result EXCEPT !.passed = Append(@, page)]
    [] category = "MINOR_ISSUES" -> [result EXCEPT !.minorIssues = Append(@, page)]
    [] category = "CLAUDE_NEEDED" -> [result EXCEPT !.claudeNeeded = Append(@, page)]
    [] category = "CRITICAL" -> [result EXCEPT !.critical = Append(@, page)]
    [] OTHER -> result

\* the loop of categorizePages over the pages from position k on
RECURSIVE DA_CategorizeFrom(_, _, _)
DA_CategorizeFrom(pages, k, result) ==
  IF k > Len(pages) THEN result
  ELSE DA_CategorizeFrom(pages, k + 1,
         DA_PushByCategory(result, pages[k], DA_MakeDecision(pages[k]).category))

DA_CategorizePages(pages) == DA_CategorizeFrom(pages, 1, EmptyDecisionResult)

\* ----------------------------------------------- EnhancedDecisionAgentFixed
\* patternHistory.get(domain) || []
HistoryOf(history, domain) ==
  IF domain \in DOMAIN history THEN history[domain] ELSE << >>

\* patternHistory.set(domain, occurrences)
SetHistory(history, domain, occurrences) ==
  [d \in DOMAIN history \cup {domain} |->
     IF d = domain THEN occurrences ELSE history[d]]

\* the second trigger of determineClaudeNeed
Fixed_IncompleteTrigger(incomplete) ==
  Len(incomplete) > incompleteResultsLimit

\* mutant of Fixed_Triggers: the sixth test, for serious or critical
\* violations below the threshold, is missing
Fixed_TriggersWithoutSevere(violations, incomplete, complexViolations) ==
  LET IsFocusKeyboard(v) == \/ IdIncludes(v.id, "focus")
                            \/ IdIncludes(v.id, "keyboard")
                            \/ IdIncludes(v.id, "tabindex")
      IsAria(v) == IdIncludes(v.id, "aria")
  IN <<[name |-> "complex", floor |-> 85,
        hit |-> Len(complexViolations) > 0],
       [name |-> "incomplete", floor |-> 80,
        hit |-> Fixed_IncompleteTrigger(incomplete)],
       [name |-> "visual", floor |-> 90,
        hit |-> Count(violations, NeedsVisualVerification) > 0],
       [name |-> "focusKeyboard", floor |-> 85,
        hit |-> Count(violations, IsFocusKeyboard) >= 2],
       [name |-> "aria", floor |-> 80,
        hit |-> Count(violations, IsAria) >= 3]>>

\* the triggers of determineClaudeNeed, in the order they are tested, each
\* with the floor it raises the confidence to (in hundredths)
Fixed_Triggers(violations, incomplete, complexViolations) ==
  LET IsFocusKeyboard(v) == \/ IdIncludes(v.id, "focus")
                            \/ IdIncludes(v.id, "keyboard")
                            \/ IdIncludes(v.id, "tabindex")
      IsAria(v) == IdIncludes(v.id, "aria")
      criticalCount == Count(violations, IsSevere)
  IN <<[name |-> "complex", floor |-> 85,
        hit |-> Len(complexViolations) > 0],
       [name |-> "incomplete", floor |-> 80,
        hit |-> Fixed_IncompleteTrigger(incomplete)],
       [name |-> "visual", floor |-> 90,
        hit |-> Count(violations, NeedsVisualVerification) > 0],
       [name |-> "focusKeyboard", floor |-> 85,
        hit |-> Count(violations, IsFocusKeyboard) >= 2],
       [name |-> "aria", floor |-> 80,
        hit |-> Count(violations, IsAria) >= 3],
       [name |-> "critical", floor |-> 75,
        hit |-> criticalCount > 0 /\ criticalCount < criticalViolationsLimit]>>

\* mutant of Fixed_RaiseConfidence: the last trigger that hit sets the
\* confidence
RECURSIVE Fixed_LastFloor(_, _, _)
Fixed_LastFloor(triggers, k, confidence) ==
  IF k > Len(triggers) THEN confidence
  ELSE Fixed_LastFloor(triggers, k + 1,
         IF triggers[k].hit THEN triggers[k].floor ELSE confidence)

\* confidence = Math.max(confidence, floor) over the triggers that hit,
\* starting from 0.7
RECURSIVE Fixed_RaiseConfidence(_, _, _)
Fixed_RaiseConfidence(triggers, k, confidence) ==
  IF k > Len(triggers) THEN confidence
  ELSE Fixed_RaiseConfidence(triggers, k + 1,
         IF triggers[k].hit /\ triggers[k].floor > confidence
         THEN triggers[k].floor ELSE confidence)

Fixed_DetermineClaudeNeed(violations, incomplete, complexViolations) ==
  LET triggers == Fixed_Triggers(violations, incomplete, complexViolations)
      Hit(t) == t.hit
      hits == Filter(triggers, Hit)
  IN [needed |-> Len(hits) > 0,
      reasons |-> [i \in DOMAIN hits |-> hits[i].name],
      confidence |-> Frac(Fixed_RaiseConfidence(triggers, 1, 70), 100)]

Fixed_DetectPatterns(violations) ==
  LET IsForm(v) == \/ IdIncludes(v.id, "label") \/ IdIncludes(v.id, "input")
                   \/ IdIncludes(v.id, "form")
      IsNav(v) == \/ IdIncludes(v.id, "landmark") \/ IdIncludes(v.id, "heading")
                  \/ IdIncludes(v.id, "skip")
      IsFocus(v) == IdIncludes(v.id, "focus") \/ IdIncludes(v.id, "keyboard")
  IN (IF Count(violations, IsForm) >= 3
      THEN <<"Systematic form accessibility issues detected">> ELSE << >>)
     \o (IF Count(violations, IsNav) >= 2
         THEN <<"Page navigation and structure issues">> ELSE << >>)
     \o (IF Count(violations, IsFocus) >= 2
         THEN <<"Focus management and keyboard navigation issues">> ELSE << >>)

Fixed_BuildReasoningFactors(violations, incomplete) ==
  LET severe == GetCriticalViolations(violations)
      patterns == Fixed_DetectPatterns(violations)
  IN (IF Len(severe) > 0
      THEN <<[type |-> "violation",
              description |-> "N critical/serious violations found",
              weight |-> Frac(9, 10), evidence |-> Ids(severe)]>>
      ELSE << >>)
     \o [i \in DOMAIN patterns |->
           [type |-> "pattern", description |-> patterns[i],
            weight |-> Frac(7, 10), evidence |-> << >>]]
     \o (IF Len(incomplete) > 0
         THEN <<[type |-> "context",
                 description |-> "N incomplete results require manual verification",
                 weight |-> Frac(6, 10), evidence |-> Ids(incomplete)]>>
         ELSE << >>)

Fixed_GenerateAlternatives(primaryDecision, violations, confidence) ==
  (IF primaryDecision = "CRITICAL" /\ FracLess(confidence, Frac(9, 10))
   THEN <<[decision |-> "CLAUDE_NEEDED", confidence |-> Frac(7, 10)]>>
   ELSE << >>)
  \o (IF primaryDecision = "CLAUDE_NEEDED" /\ Len(violations) < 3
      THEN <<[decision |-> "MINOR_ISSUES", confidence |-> Frac(5, 10)]>>
      ELSE << >>)

\* mutant of Fixed_CalculatePriority: High needs more than 3 serious
\* violations
Fixed_CalculatePriorityOffByOne(violations) ==
  LET IsCritical(v) == v.impact = "critical"
      IsSerious(v) == v.impact = "serious"
      criticalCount == Count(violations, IsCritical)
      seriousCount == Count(violations, IsSerious)
  IN IF criticalCount > 0 THEN "Critical"
     ELSE IF seriousCount > 3 THEN "High"
     ELSE IF seriousCount >= 1 \/ Len(violations) >= 5 THEN "Medium"
     ELSE "Low"

Fixed_CalculatePriority(violations) ==
  LET IsCritical(v) == v.impact = "critical"
      IsSerious(v) == v.impact = "serious"
      criticalCount == Count(violations, IsCritical)
      seriousCount == Count(violations, IsSerious)
  IN IF criticalCount > 0 THEN "Critical"
     ELSE IF seriousCount >= 3 THEN "High"
     ELSE IF seriousCount >= 1 \/ Len(violations) >= 5 THEN "Medium"
     ELSE "Low"

\* hours is counted in tenths of an hour
Fixed_EstimateEffort(violations) ==
  LET criticalCount == Count(violations, IsSevere)
      hours == criticalCount * 20 + (Len(violations) - criticalCount) * 5
               + TotalNodes(violations)
  IN IF hours <= 20 THEN "1-2 hours"
     ELSE IF hours <= 40 THEN "2-4 hours"
     ELSE IF hours <= 80 THEN "4-8 hours"
     ELSE IF hours <= 160 THEN "8-16 hours"
     ELSE "16+ hours"

Fixed_GenerateSuggestions(violations, category) ==
  LET IsAutoFixable(v) == \/ IdIncludes(v.id, "image-alt")
                          \/ IdIncludes(v.id, "label")
                          \/ IdIncludes(v.id, "html-has-lang")
  IN (IF category = "CRITICAL"
      THEN <<"Prioritize fixing critical accessibility barriers immediately">>
      ELSE << >>)
     \o (IF Count(violations, IsAutoFixable) > 0
         THEN <<"N violations can be fixed with automated tools">> ELSE << >>)

Fixed_ExtractInsights(url, violations, history) ==
  (IF Len(violations) > 10
   THEN <<"High violation count suggests systemic accessibility issues">>
   ELSE << >>)
  \o (IF Len(HistoryOf(history, Hostname(url))) > 0
      THEN <<"Domain has N previous scans in history">> ELSE << >>)

Fixed_UpdateLearningMemory(url, violations, category, history) ==
  SetHistory(history, Hostname(url),
    Append(HistoryOf(history, Hostname(url)),
           [url |-> url, violationTypes |-> Ids(violations), decision |-> category]))

\* createDecision: the decision returned and the pattern history it leaves;
\* new URL(url) of extractInsights throws before the memory is touched
Fixed_CreateDecision(url, category, reasons, confidence, violations, criticalViolations, complexViolations, incomplete, history) ==
  IF ~ParsesAsUrl(url) THEN [decision |-> Thrown, history |-> history]
  ELSE
  [decision |->
     [url |-> url,
      category |-> category,
      reasoning |->
        [decision |-> category,
         confidence |-> confidence,
         factors |-> Fixed_BuildReasoningFactors(violations, incomplete),
         alternativeDecisions |->
           Fixed_GenerateAlternatives(category, violations, confidence),
         learningInsights |-> Fixed_ExtractInsights(url, violations, history)],
      reasons |-> reasons,
      priority |-> Fixed_CalculatePriority(violations),
      estimatedEffort |-> Fixed_EstimateEffort(violations),
      complexViolations |-> Ids(complexViolations),
      criticalViolations |-> Ids(criticalViolations),
      adaptiveSuggestions |-> Fixed_GenerateSuggestions(violations, category),
      uncertaintyFactors |->
        IF FracLess(confidence, Frac(8, 10))
        THEN <<"Confidence below 80% - review recommended">> ELSE << >>],
   history |-> Fixed_UpdateLearningMemory(url, violations, category, history)]

\* mutant of Fixed_CreateErrorDecision: the failed scan is handed on for
\* review with an alternative
Fixed_CreateErrorDecisionForReview(url, error) ==
  [url |-> url,
   category |-> "CLAUDE_NEEDED",
   reasoning |->
     [decision |-> "CLAUDE_NEEDED",
      confidence |-> Frac(100, 100),
      factors |-> <<[type |-> "violation", description |-> "Scan failed: error",
                     weight |-> Frac(10, 10), evidence |-> <<error>>]>>,
      alternativeDecisions |->
        <<[decision |-> "CRITICAL", confidence |-> Frac(5, 10)]>>,
      learningInsights |-> <<"Scan failure prevents automated assessment">>],
   reasons |-> <<"Scan error">>,
   priority |-> "Critical",
   estimatedEffort |-> "2-4 hours",
   complexViolations |-> << >>,
   criticalViolations |-> <<"scan-error">>,
   adaptiveSuggestions |-> <<"Investigate scan failure",
                             "Try manual accessibility audit">>,
   uncertaintyFactors |-> <<"Unable to determine actual accessibility status">>]

Fixed_CreateErrorDecision(url, error) ==
  [url |-> url,
   category |-> "CRITICAL",
   reasoning |->
     [decision |-> "CRITICAL",
      confidence |-> Frac(100, 100),
      factors |-> <<[type |-> "violation", description |-> "Scan failed: error",
                     weight |-> Frac(10, 10), evidence |-> <<error>>]>>,
      alternativeDecisions |-> << >>,
      learningInsights |-> <<"Scan failure prevents automated assessment">>],
   reasons |-> <<"Scan error">>,
   priority |-> "Critical",
   estimatedEffort |-> "2-4 hours",
   complexViolations |-> << >>,
   criticalViolations |-> <<"scan-error">>,
   adaptiveSuggestions |-> <<"Investigate scan failure",
                             "Try manual accessibility audit">>,
   uncertaintyFactors |-> <<"Unable to determine actual accessibility status">>]

\* makeDecisionWithReasoning: the decision returned and the pattern history
\* the call leaves
Fixed_MakeDecisionWithReasoning(page, history) ==
  LET violations == page.violations
      incomplete == page.incomplete
      criticalViolations == GetCriticalViolations(violations)
      complexViolations == GetComplexViolations(violations)
      need == Fixed_DetermineClaudeNeed(violations, incomplete, complexViolations)
  IN IF IsError(page)
     THEN [decision |-> Fixed_CreateErrorDecision(page.url, page.error),
           history |-> history]
     ELSE IF Len(criticalViolations) >= criticalViolationsLimit
     THEN Fixed_CreateDecision(page.url, "CRITICAL", <<"critical">>,
            Frac(95, 100), violations, criticalViolations, complexViolations,
            incomplete, history)
     ELSE IF need.needed
     THEN Fixed_CreateDecision(page.url, "CLAUDE_NEEDED", need.reasons,
            need.confidence, violations, criticalViolations, complexViolations,
            incomplete, history)
     ELSE IF Len(violations) = 0
     THEN Fixed_CreateDecision(page.url, "PASSED", << >>, Frac(100, 100),
            violations, criticalViolations, complexViolations, incomplete, history)
     ELSE Fixed_CreateDecision(page.url, "MINOR_ISSUES", << >>, Frac(80, 100),
            violations, criticalViolations, complexViolations, incomplete, history)

\* ---------------------------------------------------- EnhancedDecisionAgent
\* the descriptions of the reasoning factors, with the counts left out, and
\* the pairs <<description, keyword>> with description.includes(keyword)
DescriptionIncludesTable ==
  { <<"Found N critical violations requiring immediate attention", "critical">>,
    <<"Detected complex accessibility patterns requiring human analysis", "complex">>,
    <<"N critical violations require urgent Claude analysis", "critical">>,
    <<"N critical violations require urgent Claude analysis", "urgent Claude analysis">>,
    <<"Domain shows recurring violations: ids", "recurring">> }

DescriptionIncludes(description, keyword) ==
  <<description, keyword>> \in DescriptionIncludesTable

Enh_DetectComplexPatterns(violations) ==
  LET IsFocus(v) == IdIncludes(v.id, "focus") \/ IdIncludes(v.id, "keyboard")
      IsAria(v) == IdIncludes(v.id, "aria")
      IsSemantic(v) == IdIncludes(v.id, "semantic") \/ IdIncludes(v.id, "role")
      IsForm(v) == \/ IdIncludes(v.id, "label") \/ IdIncludes(v.id, "input")
                   \/ IdIncludes(v.id, "form")
                   \/ \E n \in Range(v.nodes) :
                        HtmlIncludes(n, "<form") \/ HtmlIncludes(n, "<input")
      IsNav(v) == \/ IdIncludes(v.id, "landmark") \/ IdIncludes(v.id, "heading")
                  \/ IdIncludes(v.id, "bypass") \/ IdIncludes(v.id, "navigation")
  IN (IF Count(violations, IsFocus) >= 3
      THEN <<"Systemic focus management issues">> ELSE << >>)
     \o (IF Count(violations, IsAria) > 0 /\ Count(violations, IsSemantic) > 0
         THEN <<"ARIA overuse pattern">> ELSE << >>)
     \o (IF Count(violations, IsForm) >= 4
         THEN <<"Comprehensive form accessibility issues">> ELSE << >>)
     \o (IF Count(violations, IsNav) >= 3
         THEN <<"Page navigation and structure issues">> ELSE << >>)

Enh_AnalyzeViolationRelationships(violations) ==
  LET Has(keyword) == \E i \in DOMAIN violations : IdIncludes(violations[i].id, keyword)
  IN (IF Has("color-contrast") /\ Has("focus-visible")
      THEN <<"Color contrast and focus visibility">> ELSE << >>)
     \o (IF Has("label") /\ Has("aria-label")
         THEN <<"Labeling strategy inconsistency">> ELSE << >>)
     \o (IF Has("keyboard") /\ ~(Has("skip") \/ Has("bypass"))
         THEN <<"Keyboard navigation issues without skip mechanisms">> ELSE << >>)

\* weights are counted in thousandths
Enh_AnalyzeViolationsInContext(violations, incomplete) ==
  LET severe == GetCriticalViolations(violations)
      complexPatterns == Enh_DetectComplexPatterns(violations)
      relationships == Enh_AnalyzeViolationRelationships(violations)
  IN (IF Len(severe) > 0
      THEN <<[type |-> "violation",
              description |-> "Found N critical violations requiring immediate attention",
              weight |-> 900, evidence |-> Ids(severe)]>>
      ELSE << >>)
     \o (IF Len(complexPatterns) > 0
         THEN <<[type |-> "pattern",
                 description |-> "Detected complex accessibility patterns requiring human analysis",
                 weight |-> 800, evidence |-> complexPatterns]>>
         ELSE << >>)
     \o (IF Len(incomplete) > incompleteResultsLimit
         THEN <<[type |-> "context",
                 description |-> "High number of incomplete results (N) suggests dynamic content issues",
                 weight |-> 700, evidence |-> Ids(SubSeq(incomplete, 1, 5))]>>
         ELSE << >>)
     \o (IF Len(relationships) > 0
         THEN <<[type |-> "pattern",
                 description |-> "Detected interrelated violations that compound accessibility barriers",
                 weight |-> 750, evidence |-> relationships]>>
         ELSE << >>)

\* the rule ids found in at least half of the occurrences
Enh_FindCommonViolations(occurrences) ==
  LET types == UNION {Range(occurrences[i].violationTypes) : i \in DOMAIN occurrences}
      Times(t) == Cardinality({i \in DOMAIN occurrences :
                                 t \in Range(occurrences[i].violationTypes)})
  IN {t \in types : 2 * Times(t) >= Len(occurrences)}

Enh_AnalyzeHistoricalPatterns(url, history) ==
  LET occurrences == HistoryOf(history, Hostname(url))
  IN IF Len(occurrences) > 0 /\ Enh_FindCommonViolations(occurrences) # {}
     THEN <<[type |-> "historical",
             description |-> "Domain shows recurring violations: ids",
             weight |-> 500, evidence |-> <<"N previous scans analyzed">>]>>
     ELSE << >>

\* the two ratios are NaN for an empty list, and NaN exceeds nothing
Enh_ApplyHeuristicReasoning(violations) ==
  LET IsFoundational(v) == \/ IdIncludes(v.id, "html-has-lang")
                           \/ IdIncludes(v.id, "document-title")
                           \/ IdIncludes(v.id, "landmark")
                           \/ IdIncludes(v.id, "heading-order")
      IsInteractive(v) == \E n \in Range(v.nodes) :
                             \/ HtmlIncludes(n, "button") \/ HtmlIncludes(n, "link")
                             \/ HtmlIncludes(n, "input") \/ HtmlIncludes(n, "select")
      foundational == Filter(violations, IsFoundational)
  IN (IF Len(violations) > 0 /\ TotalNodes(violations) > 5 * Len(violations)
      THEN <<[type |-> "heuristic",
              description |-> "High node-per-violation ratio suggests systemic implementation issues",
              weight |-> 600, evidence |-> <<"Average N elements affected per violation">>]>>
      ELSE << >>)
     \o (IF Len(foundational) >= 2
         THEN <<[type |-> "heuristic",
                 description |-> "Foundational accessibility issues suggest need for comprehensive review",
                 weight |-> 700, evidence |-> Ids(foundational)]>>
         ELSE << >>)
     \o (IF Len(violations) > 0
            /\ 10 * Count(violations, IsInteractive) > 6 * Len(violations)
         THEN <<[type |-> "heuristic",
                 description |-> "Majority of violations on interactive elements indicates UX accessibility gaps",
                 weight |-> 650, evidence |-> <<"N of M violations affect interactive elements">>]>>
         ELSE << >>)

\* the Map of scores in insertion order
Categories == <<"PASSED", "MINOR_ISSUES", "CLAUDE_NEEDED", "CRITICAL">>

\* mutant of Enh_AdjustScores: a historical factor adds its weight to the
\* score of CLAUDE_NEEDED
Enh_AdjustScoresWithHistory(scores, f) ==
  IF f.type = "violation" /\ DescriptionIncludes(f.description, "critical")
  THEN [scores EXCEPT !.CRITICAL = @ + f.weight,
                      !.CLAUDE_NEEDED = @ + (f.weight * 5) \div 10]
  ELSE IF f.type = "pattern" \/ DescriptionIncludes(f.description, "complex")
  THEN [scores EXCEPT !.CLAUDE_NEEDED = @ + f.weight,
                      !.MINOR_ISSUES = @ - (f.weight * 3) \div 10]
  ELSE IF f.type = "heuristic"
  THEN [scores EXCEPT !.CLAUDE_NEEDED = @ + (f.weight * 7) \div 10,
                      !.CRITICAL = @ + (f.weight * 3) \div 10]
  ELSE IF f.type = "historical"
  THEN [scores EXCEPT !.CLAUDE_NEEDED = @ + f.weight]
  ELSE scores

\* one turn of the loop over the factors: scores, in thousandths, after the
\* factor f
Enh_AdjustScores(scores, f) ==
  IF f.type = "violation" /\ DescriptionIncludes(f.description, "critical")
  THEN [scores EXCEPT !.CRITICAL = @ + f.weight,
                      !.CLAUDE_NEEDED = @ + (f.weight * 5) \div 10]
  ELSE IF f.type = "pattern" \/ DescriptionIncludes(f.description, "complex")
  THEN [scores EXCEPT !.CLAUDE_NEEDED = @ + f.weight,
                      !.MINOR_ISSUES = @ - (f.weight * 3) \div 10]
  ELSE IF f.type = "heuristic"
  THEN [scores EXCEPT !.CLAUDE_NEEDED = @ + (f.weight * 7) \div 10,
                      !.CRITICAL = @ + (f.weight * 3) \div 10]
  ELSE scores

RECURSIVE Enh_AdjustAll(_, _, _)
Enh_AdjustAll(scores, factors, k) ==
  IF k > Len(factors) THEN scores
  ELSE Enh_AdjustAll(Enh_AdjustScores(scores, factors[k]), factors, k + 1)

\* the scores set when the critical threshold is reached
Enh_ThresholdScores ==
  [PASSED |-> 0, MINOR_ISSUES |-> 0, CLAUDE_NEEDED |-> 980, CRITICAL |-> 0]

\* calculateDecisionScores: the score of a category is num[category] / den,
\* and factors is the list of factors the call leaves (it may push one)
Enh_CalculateDecisionScores(factors, violations) ==
  LET severe == GetCriticalViolations(violations)
      initial == [PASSED |-> IF Len(violations) = 0 THEN 1000 ELSE 0,
                  MINOR_ISSUES |-> 300, CLAUDE_NEEDED |-> 200, CRITICAL |-> 100]
      adjusted == Enh_AdjustAll(initial, factors, 1)
      total == adjusted.PASSED + adjusted.MINOR_ISSUES + adjusted.CLAUDE_NEEDED
               + adjusted.CRITICAL
  IN IF Len(severe) >= criticalViolationsLimit
     THEN [num |-> Enh_ThresholdScores, den |-> 1000,
           factors |-> Append(factors,
             [type |-> "violation",
              description |-> "N critical violations require urgent Claude analysis",
              weight |-> 1000, evidence |-> <<"high-priority">>,
              impact |-> "critical"])]
     ELSE [num |-> adjusted, den |-> IF total > 0 THEN total ELSE 1000,
           factors |-> factors]

\* the loop of selectBestDecision from the k-th category on
RECURSIVE Enh_BestFrom(_, _, _, _)
Enh_BestFrom(num, k, bestDecision, highestScore) ==
  IF k > Len(Categories) THEN bestDecision
  ELSE IF num[Categories[k]] > highestScore
  THEN Enh_BestFrom(num, k + 1, Categories[k], num[Categories[k]])
  ELSE Enh_BestFrom(num, k + 1, bestDecision, highestScore)

\* mutant of Enh_SelectBestDecision: the doubled gap is not capped at 1
Enh_SelectBestDecisionUncapped(scores) ==
  LET values == {scores.num[Categories[k]] : k \in DOMAIN Categories}
      first == CHOOSE x \in values : \A y \in values : y <= x
      firstAt == {k \in DOMAIN Categories : scores.num[Categories[k]] = first}
      second == IF Cardinality(firstAt) > 1 THEN first
                ELSE CHOOSE x \in values \ {first} :
                       \A y \in values \ {first} : y <= x
  IN [decision |-> Enh_BestFrom(scores.num, 1, "MINOR_ISSUES", 0),
      confidence |-> Frac(2 * (first - second), scores.den)]

Enh_SelectBestDecision(scores) ==
  LET values == {scores.num[Categories[k]] : k \in DOMAIN Categories}
      first == CHOOSE x \in values : \A y \in values : y <= x
      firstAt == {k \in DOMAIN Categories : scores.num[Categories[k]] = first}
      \* the second of the sorted scores: the top again if two categories tie
      second == IF Cardinality(firstAt) > 1 THEN first
                ELSE CHOOSE x \in values \ {first} :
                       \A y \in values \ {first} : y <= x
      gap == 2 * (first - second)
  IN [decision |-> Enh_BestFrom(scores.num, 1, "MINOR_ISSUES", 0),
      confidence |-> IF gap >= scores.den THEN Frac(1, 1) ELSE Frac(gap, scores.den)]

\* sort((a, b) => b.confidence - a.confidence) by insertion, which keeps the
\* order of equal elements as the library sort does
RECURSIVE Enh_InsertByConfidence(_, _)
Enh_InsertByConfidence(sorted, a) ==
  IF sorted = << >> THEN <<a>>
  ELSE IF FracLess(Head(sorted).confidence, a.confidence)
  THEN <<a>> \o sorted
  ELSE <<Head(sorted)>> \o Enh_InsertByConfidence(Tail(sorted), a)

RECURSIVE Enh_SortByConfidence(_, _, _)
Enh_SortByConfidence(list, k, sorted) ==
  IF k > Len(list) THEN sorted
  ELSE Enh_SortByConfidence(list, k + 1, Enh_InsertByConfidence(sorted, list[k]))

\* mutant of Enh_GetAlternativeDecisions: the alternatives are left in the
\* order of the Map
Enh_GetAlternativeDecisionsUnsorted(scores, primaryDecision) ==
  LET IsAlternative(c) == c # primaryDecision /\ 5 * scores.num[c] > scores.den
      kept == Filter(Categories, IsAlternative)
      alternatives == [i \in DOMAIN kept |->
                         [decision |-> kept[i],
                          confidence |-> Frac(scores.num[kept[i]], scores.den)]]
  IN SubSeq(alternatives, 1, IF Len(alternatives) < 2 THEN Len(alternatives) ELSE 2)

Enh_GetAlternativeDecisions(scores, primaryDecision) ==
  LET IsAlternative(c) == c # primaryDecision /\ 5 * scores.num[c] > scores.den
      kept == Filter(Categories, IsAlternative)
      alternatives == [i \in DOMAIN kept |->
                         [decision |-> kept[i],
                          confidence |-> Frac(scores.num[kept[i]], scores.den)]]
      sorted == Enh_SortByConfidence(alternatives, 1, << >>)
  IN SubSeq(sorted, 1, IF Len(sorted) < 2 THEN Len(sorted) ELSE 2)

\* factors.sort((a, b) => b.weight - a.weight) of generateEnhancedReason: it
\* sorts the array the returned reasoning holds
RECURSIVE Enh_InsertByWeight(_, _)
Enh_InsertByWeight(sorted, f) ==
  IF sorted = << >> THEN <<f>>
  ELSE IF Head(sorted).weight < f.weight THEN <<f>> \o sorted
  ELSE <<Head(sorted)>> \o Enh_InsertByWeight(Tail(sorted), f)

RECURSIVE Enh_SortByWeight(_, _, _)
Enh_SortByWeight(list, k, sorted) ==
  IF k > Len(list) THEN sorted
  ELSE Enh_SortByWeight(list, k + 1, Enh_InsertByWeight(sorted, list[k]))

Enh_UpdateLearningMemory(url, violations, category, history) ==
  SetHistory(history, Hostname(url),
    Append(HistoryOf(history, Hostname(url)),
           [url |-> url, violationTypes |-> Ids(violations), decision |-> category]))

Enh_CalculateEnhancedPriority(violations, confidence) ==
  LET IsCritical(v) == v.impact = "critical"
      IsSerious(v) == v.impact = "serious"
      criticalCount == Count(violations, IsCritical)
      seriousCount == Count(violations, IsSerious)
  IN IF FracLess(confidence, Frac(5, 10)) /\ (criticalCount > 0 \/ seriousCount > 2)
     THEN "Critical"
     ELSE IF criticalCount > 0 THEN "Critical"
     ELSE IF seriousCount >= 3 \/ (seriousCount >= 1 /\ Len(violations) >= 10) THEN "High"
     ELSE IF seriousCount >= 1 \/ Len(violations) >= 5 THEN "Medium"
     ELSE "Low"

\* hours are counted in quarters of an hour
Enh_CalculateBaseEffort(violations) ==
  LET totalNodes == TotalNodes(violations)
      complexCount == Len(GetComplexViolations(violations))
      criticalCount == Len(GetCriticalViolations(violations))
      extraNodes == IF totalNodes > Len(violations)
                    THEN totalNodes - Len(violations) ELSE 0
      hours == criticalCount * 8 + complexCount * 12
               + (Len(violations) - criticalCount - complexCount) * 2
               + extraNodes
  IN IF hours <= 4 THEN "0.5-1 hours"
     ELSE IF hours <= 8 THEN "1-2 hours"
     ELSE IF hours <= 16 THEN "2-4 hours"
     ELSE IF hours <= 32 THEN "4-8 hours"
     ELSE IF hours <= 64 THEN "8-16 hours"
     ELSE "16+ hours"

\* adjustEffortEstimate(baseEstimate, 1.5): the upper end of the range, in
\* halves of an hour, times 3 / 2
Enh_AdjustEffortEstimate(baseEstimate) ==
  LET upper == CASE baseEstimate = "0.5-1 hours" -> 2
                 [] baseEstimate = "1-2 hours" -> 4
                 [] baseEstimate = "2-4 hours" -> 8
                 [] baseEstimate = "4-8 hours" -> 16
                 [] baseEstimate = "8-16 hours" -> 32
                 [] baseEstimate = "16+ hours" -> 64
                 [] OTHER -> 4
      adjustedMax == upper * 3
  IN IF adjustedMax <= 4 THEN "0.5-1 hours"
     ELSE IF adjustedMax <= 8 THEN "1-2 hours"
     ELSE IF adjustedMax <= 16 THEN "2-4 hours"
     ELSE IF adjustedMax <= 32 THEN "4-8 hours"
     ELSE IF adjustedMax <= 64 THEN "8-16 hours"
     ELSE "16+ hours"

Enh_EstimateEffortWithLearning(violations, historicalFactors) ==
  LET IsRecurring(f) == /\ f.type = "historical"
                        /\ DescriptionIncludes(f.description, "recurring")
  IN IF Count(historicalFactors, IsRecurring) > 0
     THEN Enh_AdjustEffortEstimate(Enh_CalculateBaseEffort(violations))
     ELSE Enh_CalculateBaseEffort(violations)

Enh_CreateErrorDecision(url, error) ==
  [url |-> url,
   category |-> "CRITICAL",
   reasoning |->
     [decision |-> "CRITICAL",
      confidence |-> Frac(1, 1),
      factors |-> <<[type |-> "violation",
                     description |-> "Scan failed with error: error",
                     weight |-> 1000, evidence |-> <<error>>]>>,
      alternativeDecisions |-> << >>],
   priority |-> "Critical",
   estimatedEffort |-> "2-4 hours",
   complexViolations |-> << >>,
   criticalViolations |-> <<"scan-error">>,
   isHighPriority |-> FALSE]

\* makeDecisionWithReasoning: the decision returned and the pattern history
\* the call leaves.  The texts of the decision (reason, contextual analysis,
\* insights, suggestions, uncertainty factors) are left out, and of the
\* learning memory only patternHistory, the part the decision reads.  new
\* URL(url) of analyzeHistoricalPatterns throws before the memory is touched.
Enh_MakeDecisionWithReasoning(page, history) ==
  LET violations == page.violations
      incomplete == page.incomplete
      historicalInsights == Enh_AnalyzeHistoricalPatterns(page.url, history)
      reasoningFactors ==
        Enh_AnalyzeViolationsInContext(violations, incomplete)
        \o historicalInsights
        \o Enh_ApplyHeuristicReasoning(violations)
      decisionScores == Enh_CalculateDecisionScores(reasoningFactors, violations)
      primaryDecision == Enh_SelectBestDecision(decisionScores)
      IsUrgent(f) == /\ "high-priority" \in Range(f.evidence)
                     /\ DescriptionIncludes(f.description, "urgent Claude analysis")
  IN IF IsError(page)
     THEN [decision |-> Enh_CreateErrorDecision(page.url, page.error),
           history |-> history]
     ELSE IF ~ParsesAsUrl(page.url)
     THEN [decision |-> Thrown, history |-> history]
     ELSE [decision |->
             [url |-> page.url,
              category |-> primaryDecision.decision,
              reasoning |->
                [decision |-> primaryDecision.decision,
                 confidence |-> primaryDecision.confidence,
                 factors |-> Enh_SortByWeight(decisionScores.factors, 1, << >>),
                 alternativeDecisions |->
                   Enh_GetAlternativeDecisions(decisionScores, primaryDecision.decision)],
              priority |->
                Enh_CalculateEnhancedPriority(violations, primaryDecision.confidence),
              estimatedEffort |->
                Enh_EstimateEffortWithLearning(violations, historicalInsights),
              complexViolations |-> Ids(GetComplexViolations(violations)),
              criticalViolations |-> Ids(GetCriticalViolations(violations)),
              isHighPriority |-> Count(decisionScores.factors, IsUrgent) > 0],
           history |->
             Enh_UpdateLearningMemory(page.url, violations,
                                      primaryDecision.decision, history)]

\* ------------------------------------- EnhancedAccessibilityOrchestrator
\* scanResults.map(result => decisionAgent.makeDecisionWithReasoning(result))
\* from position k on: the decisions made and the pattern history left
\* and whether a call threw, which ends the map
RECURSIVE MapDecisions(_, _, _, _)
MapDecisions(pages, k, made, history) ==
  IF k > Len(pages)
  THEN [decisions |-> made, history |-> history, thrown |-> FALSE]
  ELSE LET r == Fixed_MakeDecisionWithReasoning(pages[k], history)
       IN IF r.decision = Thrown
          THEN [decisions |-> made, history |-> r.history, thrown |-> TRUE]
          ELSE MapDecisions(pages, k + 1, Append(made, r.decision), r.history)

\* enhancedDecisions.filter(d => d.category === category)
FilterByCategory(made, category) ==
  LET Keep(d) == d.category = category
  IN Filter(made, Keep)

Categorize(made) ==
  [passed |-> FilterByCategory(made, "PASSED"),
   minorIssues |-> FilterByCategory(made, "MINOR_ISSUES"),
   claudeNeeded |-> FilterByCategory(made, "CLAUDE_NEEDED"),
   critical |-> FilterByCategory(made, "CRITICAL")]

\* ============================================================ the hub
\* ---- AgentCommunicationHub, the communicators, and phase 1 of the
\* ---- enhanced workflow up to its call of scanPages
WaitTimeout == 5000   \* default timeout of waitForResponse, in milliseconds
PollInterval == 100   \* setTimeout(resolve, 100) between two polls

\* url.length
UrlLength(url) ==
  CASE url = "https://a.example/x" -> 19
    [] url = "https://b.example/" -> 18

\* the hub's three fields that the communicators change
Hub ==
  [messageQueue |-> messageQueue, coordinationState |-> coordinationState,
   idsIssued |-> idsIssued]

\* generateMessageId and generateCorrelationId: "msg-..." and "corr-..."
\* followed by the time and a random suffix; n tells the suffixes apart
GenerateMessageId(h) == [kind |-> "msg", n |-> h.idsIssued + 1]
GenerateCorrelationId(h) == [kind |-> "corr", n |-> h.idsIssued + 1]

\* sendMessage: the id is generated, the message pushed on the queue of its
\* target, or of every agent but the sender for a broadcast
SendMessage(h, message) ==
  LET fullMessage == [message EXCEPT !.id = GenerateMessageId(h)]
      Receives(a) == IF message.toAgent = "broadcast"
                     THEN a # message.fromAgent
                     ELSE a = message.toAgent
  IN [hub |-> [h EXCEPT !.idsIssued = @ + 1,
                        !.messageQueue =
                          [a \in AgentTypes |->
                             IF Receives(a) THEN Append(h.messageQueue[a], fullMessage)
                             ELSE h.messageQueue[a]]],
      id |-> fullMessage.id]

\* getMessages(agent, [messageType])
GetMessages(h, agentName, messageType) ==
  LET Keep(m) == m.messageType = messageType
  IN SelectSeq(h.messageQueue[agentName], Keep)

\* clearMessages(agent, messageIds)
ClearMessages(h, agentName, messageIds) ==
  LET Keep(m) == m.id \notin messageIds
  IN [h EXCEPT !.messageQueue[agentName] = SelectSeq(@, Keep)]

\* requestCoordination: a correlation id is generated, stored, sent in a
\* coordination message to the orchestrator, and returned
RequestCoordination(h, fromAgent, request) ==
  LET corr == GenerateCorrelationId(h)
      h1 == [h EXCEPT !.idsIssued = @ + 1,
                      !.coordinationState = @ \cup {corr}]
      sent == SendMessage(h1,
                [id |-> NoId, fromAgent |-> fromAgent, toAgent |-> "orchestrator",
                 messageType |-> "coordination", priority |-> "high",
                 payload |-> request, requiresResponse |-> TRUE,
                 correlationId |-> corr])
  IN [hub |-> sent.hub, correlationId |-> corr]

\* resources.sort((a, b) => a.length - b.length): a stable sort, shorter
\* URLs first
RECURSIVE InsertByLength(_, _)
InsertByLength(sorted, url) ==
  IF sorted = << >> THEN <<url>>
  ELSE IF UrlLength(sorted[Len(sorted)]) <= UrlLength(url) THEN Append(sorted, url)
  ELSE Append(InsertByLength(SubSeq(sorted, 1, Len(sorted) - 1), url),
              sorted[Len(sorted)])

RECURSIVE SortByLength(_, _, _)
SortByLength(list, k, sorted) ==
  IF k > Len(list) THEN sorted
  ELSE SortByLength(list, k + 1, InsertByLength(sorted, list[k]))

PrioritizeResources(resources) == SortByLength(resources, 1, << >>)

\* createBatches with maxBatchSize 10: the lists of the model are shorter,
\* so all resources are in one batch, and there is none for no resource
CreateBatches(resources) ==
  IF resources = << >> THEN << >> ELSE <<resources>>

\* the response handlePrioritization and handleBatching send for a message
ResponseTo(message, payload) ==
  [id |-> NoId, fromAgent |-> "orchestrator", toAgent |-> message.fromAgent,
   messageType |-> "response", priority |-> "medium", payload |-> payload,
   requiresResponse |-> FALSE, correlationId |-> message.id]

\* the forEach of handleCoordinationRequests from position k on; the cases
\* sequence and parallelize send nothing
RECURSIVE HandleMessages(_, _, _)
HandleMessages(h, messages, k) ==
  IF k > Len(messages) THEN h
  ELSE LET request == messages[k].payload
           answered ==
             CASE request.action = "prioritize" ->
                    SendMessage(h, ResponseTo(messages[k],
                      [prioritized |-> PrioritizeResources(request.resources)])).hub
               [] request.action = "batch" ->
                    SendMessage(h, ResponseTo(messages[k],
                      [batches |-> CreateBatches(request.resources)])).hub
               [] OTHER -> h
       IN HandleMessages(answered, messages, k + 1)

\* handleCoordinationRequests: every coordination message in the queue of
\* the orchestrator is answered, then cleared
HandleCoordinationRequests(h) ==
  LET messages == GetMessages(h, "orchestrator", "coordination")
  IN ClearMessages(HandleMessages(h, messages, 1), "orchestrator",
                   {messages[k].id : k \in DOMAIN messages})

\* whether the poll of waitForResponse finds its response
ResponseArrived(h, id) ==
  \E m \in Range(GetMessages(h, "bulk-scanner", "response")) : m.correlationId = id

\* hub.shareInsight: an actionable insight of confidence above 0.7 is
\* broadcast (the insight cache is written only)
ShareInsight(h, fromAgent, insight) ==
  IF FracLess(Frac(7, 10), insight.confidence) /\ insight.actionable
  THEN SendMessage(h,
         [id |-> NoId, fromAgent |-> fromAgent, toAgent |-> "broadcast",
          messageType |-> "insight",
          priority |-> IF FracLess(Frac(9, 10), insight.confidence)
                       THEN "high" ELSE "medium",
          payload |-> insight, requiresResponse |-> FALSE,
          correlationId |-> NoId]).hub
  ELSE h

\* identifyDecisionPatterns: the low-confidence pattern, then the pattern
\* of complex violations found on more than half of the pages
IdentifyDecisionPatterns(decisions) ==
  LET LowConfidence(d) == FracLess(d.reasoning.confidence, Frac(6, 10))
      Occurrences(id) ==
        LET Sum[k \in 0..Len(decisions)] ==
              IF k = 0 THEN 0
              ELSE LET Is(v) == v = id
                   IN Sum[k - 1] + Count(decisions[k].complexViolations, Is)
        IN Sum[Len(decisions)]
      ids == UNION {Range(decisions[k].complexViolations) : k \in DOMAIN decisions}
      low == IF 10 * Count(decisions, LowConfidence) > 3 * Len(decisions)
             THEN <<[type |-> "pattern", confidence |-> Frac(8, 10),
                     actionable |-> TRUE]>>
             ELSE << >>
      recurring == IF \E id \in ids : 2 * Occurrences(id) > Len(decisions)
                   THEN <<[type |-> "pattern", confidence |-> Frac(9, 10),
                           actionable |-> TRUE]>>
                   ELSE << >>
  IN low \o recurring

\* shareDecisionInsights: one insight per pattern
RECURSIVE ShareInsights(_, _, _, _)
ShareInsights(h, fromAgent, insights, k) ==
  IF k > Len(insights) THEN h
  ELSE ShareInsights(ShareInsight(h, fromAgent, insights[k]), fromAgent,
                     insights, k + 1)

ShareDecisionInsights(h, decisions) ==
  ShareInsights(h, "decision-agent", IdentifyDecisionPatterns(decisions), 1)

\* --------------------------------------------------------- triage actions
\* a fresh engine or coordinator, the scanner at rest, and the input drawn
InitTriage ==
  /\ options = Constructor([maxWorkers |-> 0, retryAttempts |-> 0])
  /\ pc = "idle"
  /\ urls = << >>
  /\ callNo = 0
  /\ browser = "null"
  /\ browserProc = "none"
  /\ workQueue = << >>
  /\ workers = NoWorkers
  /\ results = << >>
  /\ processedCount = 0
  /\ totalUrlsToProcess = 0
  /\ pending = "none"
  /\ outcome = "none"
  /\ summary = NoSummary
  /\ attemptLog = NoWorkers
  /\ \/ inputPage \in TriagePages /\ inputBatch = << >>
     \/ inputPage = NoPage /\ inputBatch \in Batches
  /\ agent = "none"
  /\ returned = NoDecision
  /\ enhancedDecisions = << >>
  /\ decisionResult = NoCategorized
  /\ patternHistory = NoHistory
  /\ calls = 0
  /\ previous = NoDecision
  /\ RestIdle

\* DecisionAgent.makeDecision(inputPage)
MakeDecision ==
  /\ agent = "none"
  /\ inputPage # NoPage
  /\ agent' = "DecisionAgent"
  /\ calls' = 1
  /\ returned' = DA_MakeDecision(inputPage)
  /\ UNCHANGED <<inputPage, inputBatch, enhancedDecisions, decisionResult,
                 patternHistory, previous>>
  /\ UNCHANGED outsideTriage

\* EnhancedDecisionAgentFixed.makeDecisionWithReasoning(inputPage), on a
\* fresh engine or once more on the engine that decided the page
FixedMakeDecisionWithReasoning ==
  /\ agent \in {"none", "EnhancedDecisionAgentFixed"}
  /\ inputPage # NoPage
  /\ calls < MaxDecideCalls
  /\ agent' = "EnhancedDecisionAgentFixed"
  /\ calls' = calls + 1
  /\ previous' = returned
  /\ \E r \in {Fixed_MakeDecisionWithReasoning(inputPage, patternHistory)} :
        /\ returned' = r.decision
        /\ patternHistory' = r.history
  /\ UNCHANGED <<inputPage, inputBatch, enhancedDecisions, decisionResult>>
  /\ UNCHANGED outsideTriage

\* EnhancedDecisionAgent.makeDecisionWithReasoning(inputPage), on a fresh
\* engine or once more on the engine that decided the page
EnhancedMakeDecisionWithReasoning ==
  /\ agent \in {"none", "EnhancedDecisionAgent"}
  /\ inputPage # NoPage
  /\ calls < MaxDecideCalls
  /\ agent' = "EnhancedDecisionAgent"
  /\ calls' = calls + 1
  /\ previous' = returned
  /\ \E r \in {Enh_MakeDecisionWithReasoning(inputPage, patternHistory)} :
        /\ returned' = r.decision
        /\ patternHistory' = r.history
  /\ UNCHANGED <<inputPage, inputBatch, enhancedDecisions, decisionResult>>
  /\ UNCHANGED outsideTriage

\* DecisionAgent.categorizePages(inputBatch)
CategorizePages ==
  /\ agent = "none"
  /\ inputPage = NoPage
  /\ agent' = "DecisionAgent"
  /\ calls' = 1
  /\ decisionResult' = DA_CategorizePages(inputBatch)
  /\ UNCHANGED <<inputPage, inputBatch, returned, enhancedDecisions,
                 patternHistory, previous>>
  /\ UNCHANGED outsideTriage

\* EnhancedAccessibilityOrchestrator.makeEnhancedDecisions(inputBatch): a
\* call of the map that throws rejects the promise, and no list is built
\* nor any insight shared
MakeEnhancedDecisions ==
  /\ agent = "none"
  /\ inputPage = NoPage
  /\ agent' = "EnhancedAccessibilityOrchestrator"
  /\ calls' = 1
  /\ \E r \in {MapDecisions(inputBatch, 1, << >>, patternHistory)} :
       /\ patternHistory' = r.history
       /\ IF r.thrown
          THEN /\ returned' = Thrown
               /\ UNCHANGED <<enhancedDecisions, decisionResult>>
               /\ UNCHANGED <<messageQueue, coordinationState, idsIssued>>
          ELSE /\ enhancedDecisions' = r.decisions
               /\ decisionResult' = Categorize(r.decisions)
               /\ UNCHANGED returned
               /\ \E h \in {ShareDecisionInsights(Hub, r.decisions)} :
                    /\ messageQueue' = h.messageQueue
                    /\ coordinationState' = h.coordinationState
                    /\ idsIssued' = h.idsIssued
  /\ UNCHANGED <<inputPage, inputBatch, previous>>
  /\ UNCHANGED <<requestUrls, correlationId, waitClock, waitResult,
                 prioritizedUrls>>
  /\ UNCHANGED <<scannerVars, workflowVars, cancelled>>

NextTriage ==
  \/ MakeDecision
  \/ FixedMakeDecisionWithReasoning
  \/ EnhancedMakeDecisionWithReasoning
  \/ CategorizePages
  \/ MakeEnhancedDecisions

SpecTriage == InitTriage /\ [][NextTriage]_vars

\* ---- the triage entry points on results that are well typed but odd: a
\* ---- url that is not an absolute URL, rule ids no engine knows, violations
\* ---- without nodes
MalformedUrls == {"https://a.example/x", "example.com/page"}

MalformedCatalog ==
  <<Finding("custom-rule-xyz", "moderate", <<"<div>">>, {"custom"}),
    Finding("vendor-check-42", "serious", << >>, {"custom"}),
    Finding("color-contrast", "serious", << >>, {"cat.color", "wcag2aa", "wcag143"})>>

\* the findings of MalformedCatalog at the positions in I, from position k on
RECURSIVE PickMalformed(_, _)
PickMalformed(I, k) ==
  IF k > Len(MalformedCatalog) THEN << >>
  ELSE IF k \in I THEN <<MalformedCatalog[k]>> \o PickMalformed(I, k + 1)
  ELSE PickMalformed(I, k + 1)

MalformedPages ==
  {MkPage(u, PickMalformed(I, 1), << >>, << >>, << >>, e) :
     u \in MalformedUrls, I \in SUBSET DOMAIN MalformedCatalog, e \in ScanErrors}

MalformedBatchPages ==
  { MkPage("https://a.example/x", PickMalformed({1}, 1), << >>, << >>, << >>, NoError),
    MkPage("example.com/page", PickMalformed({1}, 1), << >>, << >>, << >>, NoError),
    MkPage("example.com/page", << >>, << >>, << >>, << >>, "Navigation failed") }

InitMalformed ==
  /\ options = Constructor([maxWorkers |-> 0, retryAttempts |-> 0])
  /\ pc = "idle"
  /\ urls = << >>
  /\ callNo = 0
  /\ browser = "null"
  /\ browserProc = "none"
  /\ workQueue = << >>
  /\ workers = NoWorkers
  /\ results = << >>
  /\ processedCount = 0
  /\ totalUrlsToProcess = 0
  /\ pending = "none"
  /\ outcome = "none"
  /\ summary = NoSummary
  /\ attemptLog = NoWorkers
  /\ \/ inputPage \in MalformedPages /\ inputBatch = << >>
     \/ inputPage = NoPage /\ inputBatch \in SeqsUpTo(MalformedBatchPages, MaxBatch)
  /\ agent = "none"
  /\ returned = NoDecision
  /\ enhancedDecisions = << >>
  /\ decisionResult = NoCategorized
  /\ patternHistory = NoHistory
  /\ calls = 0
  /\ previous = NoDecision
  /\ RestIdle

SpecMalformed == InitMalformed /\ [][NextTriage]_vars

\* ---- phase 1 of the enhanced workflow up to its call of scanPages
\* performIntelligentScanning up to its first await: the prioritization is
\* requested, handleCoordinationRequests runs, and waitForResponse polls for
\* the first time.  The sort of handlePrioritization is in place and
\* request.resources is the urls array itself.
RequestPrioritization(u) ==
  /\ phase = "none"
  /\ correlationId = NoId
  /\ agent = "none"
  /\ pc = "idle" /\ callNo = 0
  /\ \E asked \in {RequestCoordination(Hub, "bulk-scanner",
                      [action |-> "prioritize", resources |-> u])} :
     \E h \in {HandleCoordinationRequests(asked.hub)} :
        /\ correlationId' = asked.correlationId
        /\ messageQueue' = h.messageQueue
        /\ coordinationState' = h.coordinationState
        /\ idsIssued' = h.idsIssued
        /\ requestUrls' = PrioritizeResources(u)
        /\ waitResult' = IF ResponseArrived(h, asked.correlationId)
                         THEN "found" ELSE "none"
  /\ waitClock' = 0
  /\ UNCHANGED prioritizedUrls
  /\ UNCHANGED outsideHub

\* waitForResponse after a sleep of PollInterval: the loop test, then the
\* next poll
WaitForResponse ==
  /\ correlationId # NoId
  /\ waitResult = "none"
  /\ waitClock' = waitClock + PollInterval
  /\ waitResult' = IF waitClock' >= WaitTimeout THEN "timeout"
                   ELSE IF ResponseArrived(Hub, correlationId) THEN "found"
                   ELSE "none"
  /\ UNCHANGED <<messageQueue, coordinationState, idsIssued, requestUrls,
                 correlationId, prioritizedUrls>>
  /\ UNCHANGED outsideHub

\* performIntelligentScanning after waitForResponse returned: the response
\* is looked up and prioritizedUrls, the argument of scanPages, chosen
ChoosePrioritizedUrls ==
  /\ waitResult \in {"found", "timeout"}
  /\ phase = "none"
  /\ LET messages == GetMessages(Hub, "bulk-scanner", "response")
         Matches(m) == m.correlationId = correlationId
         found == SelectSeq(messages, Matches)
     IN prioritizedUrls' = IF found # << >> THEN found[1].payload.prioritized
                           ELSE requestUrls
  /\ phase' = "prioritized"
  /\ UNCHANGED <<skipClaude, analysisCalls, reportInput>>
  /\ UNCHANGED <<messageQueue, coordinationState, idsIssued, requestUrls,
                 correlationId, waitClock, waitResult>>
  /\ UNCHANGED <<scannerVars, triageVars, cancelled>>

NextCoordination ==
  \/ \E u \in UrlLists : RequestPrioritization(u)
  \/ WaitForResponse
  \/ ChoosePrioritizedUrls

SpecCoordination == Init /\ [][NextCoordination]_vars

\* ====================================================== the two workflows
\* ---- phases 2 to 4 of EnhancedAccessibilityOrchestrator.runWorkflow and
\* ---- steps 3 to 6 of main, on the scan results inputBatch
\* scanResults.find(r => r.url === url): the first result of that url
FindByUrl(scanResults, url) ==
  LET at == {i \in DOMAIN scanResults : scanResults[i].url = url}
  IN IF at = {} THEN NoPage
     ELSE scanResults[CHOOSE i \in at : \A j \in at : i <= j]

\* violations.some(v => v.nodes.some(n => n.html.includes(keyword)))
SomeNodeIncludes(violations, keyword) ==
  \E i \in DOMAIN violations :
    \E j \in DOMAIN violations[i].nodes : HtmlIncludes(violations[i].nodes[j], keyword)

PageContext(violations) ==
  [hasForm |-> SomeNodeIncludes(violations, "<form"),
   hasNavigation |-> SomeNodeIncludes(violations, "nav"),
   hasModal |-> SomeNodeIncludes(violations, "modal")
                \/ SomeNodeIncludes(violations, "dialog")]

\* performAdaptiveAnalysis: categorized.claudeNeeded.map(decision => ...),
\* the violations taken from the first scan result of the decision's url
AnalysisRequests(categorized, scanResults) ==
  [k \in DOMAIN categorized.claudeNeeded |->
     LET decision == categorized.claudeNeeded[k]
         scanResult == FindByUrl(scanResults, decision.url)
     IN [url |-> decision.url, violations |-> scanResult.violations,
         priority |-> decision.priority,
         pageContext |-> PageContext(scanResult.violations)]]

\* shareAnalysisResults on what the analysis collaborator returned: an
\* alert is broadcast when a result has a critical remediation step, and an
\* optimization insight when the total cost exceeds 10
ShareAnalysisResults(h, alert, costly) ==
  LET h1 == IF alert
            THEN SendMessage(h,
                   [id |-> NoId, fromAgent |-> "claude-analyst",
                    toAgent |-> "broadcast", messageType |-> "alert",
                    priority |-> "critical", payload |-> [type |-> "alert"],
                    requiresResponse |-> FALSE, correlationId |-> NoId]).hub
            ELSE h
  IN IF costly
     THEN ShareInsight(h1, "claude-analyst",
            [type |-> "optimization", confidence |-> Frac(1, 1),
             actionable |-> TRUE])
     ELSE h1

\* performAdaptiveAnalysis(decisionData); alert and costly tell what the
\* results of processComplexIssues make shareAnalysisResults send
PerformAdaptiveAnalysis(alert, costly) ==
  /\ agent = "EnhancedAccessibilityOrchestrator"
  /\ returned # Thrown
  /\ phase \in {"none", "prioritized"}
  /\ phase' = "analysis"
  /\ IF skipClaude \/ Len(decisionResult.claudeNeeded) = 0
     THEN UNCHANGED <<analysisCalls, messageQueue, coordinationState, idsIssued>>
     ELSE \E analysisRequests \in {AnalysisRequests(decisionResult, inputBatch)} :
          \E asked \in {RequestCoordination(Hub, "claude-analyst",
                          [action |-> "batch",
                           resources |-> [k \in DOMAIN analysisRequests |->
                                            analysisRequests[k].url]])} :
          \E h \in {ShareAnalysisResults(HandleCoordinationRequests(asked.hub),
                                         alert, costly)} :
             /\ analysisCalls' = Append(analysisCalls, analysisRequests)
             /\ messageQueue' = h.messageQueue
             /\ coordinationState' = h.coordinationState
             /\ idsIssued' = h.idsIssued
  /\ UNCHANGED <<skipClaude, reportInput, requestUrls, correlationId, waitClock,
                 waitResult, prioritizedUrls>>
  /\ UNCHANGED <<scannerVars, triageVars, cancelled>>

\* generateEnhancedReports: scanResults.filter(r => decisions.find(d =>
\* d.url === r.url && d.category === c)) for each of the four categories
StandardCategorized(decisions, scanResults) ==
  LET Pick(c) ==
        LET Keep(r) == \E k \in DOMAIN decisions :
                         decisions[k].url = r.url /\ decisions[k].category = c
        IN SelectSeq(scanResults, Keep)
  IN [passed |-> Pick("PASSED"), minorIssues |-> Pick("MINOR_ISSUES"),
      claudeNeeded |-> Pick("CLAUDE_NEEDED"), critical |-> Pick("CRITICAL")]

\* generateEnhancedReports(decisionData, claudeResults) up to generateReport
GenerateEnhancedReports ==
  /\ agent = "EnhancedAccessibilityOrchestrator"
  /\ phase = "analysis"
  /\ phase' = "reports"
  /\ reportInput' = StandardCategorized(enhancedDecisions, inputBatch)
  /\ UNCHANGED <<skipClaude, analysisCalls>>
  /\ UNCHANGED hubVars
  /\ UNCHANGED <<scannerVars, triageVars, cancelled>>

\* this.results after a scan that returned the pages of the list
ResultsOf(pages) ==
  [i \in DOMAIN pages |->
     [url |-> pages[i].url, result |-> pages[i],
      needsClaudeAnalysis |-> ScannerNeedsHumanAnalysis(pages[i])]]

\* main, step 5: the request built for a page of decisions.claudeNeeded
MainAnalysisRequests(claudeNeeded) ==
  LET IsCritical(v) == v.impact = "critical"
      IsSerious(v) == v.impact = "serious"
  IN [k \in DOMAIN claudeNeeded |->
        LET page == claudeNeeded[k]
        IN [url |-> page.url, violations |-> page.violations,
            priority |-> IF Count(page.violations, IsCritical) > 0 THEN "Critical"
                         ELSE IF Count(page.violations, IsSerious) > 0 THEN "High"
                         ELSE "Medium",
            pageContext |-> PageContext(page.violations)]]

\* main, steps 3 and 4: the lists of categorizeResults are the decisions
MainCategorizeResults ==
  /\ agent = "none"
  /\ inputPage = NoPage
  /\ phase = "none"
  /\ agent' = "main"
  /\ calls' = 1
  /\ decisionResult' = CategorizeResults(ResultsOf(inputBatch))
  /\ UNCHANGED <<inputPage, inputBatch, returned, enhancedDecisions,
                 patternHistory, previous>>
  /\ UNCHANGED outsideTriage

\* main, step 5: processComplexIssues unless skipped or not needed
MainAnalysis ==
  /\ agent = "main"
  /\ phase = "none"
  /\ phase' = "analysis"
  /\ analysisCalls' =
       IF ~skipClaude /\ Len(decisionResult.claudeNeeded) > 0
       THEN Append(analysisCalls, MainAnalysisRequests(decisionResult.claudeNeeded))
       ELSE analysisCalls
  /\ UNCHANGED <<skipClaude, reportInput>>
  /\ UNCHANGED hubVars
  /\ UNCHANGED <<scannerVars, triageVars, cancelled>>

\* main, step 6: generateReport(decisions, claudeResults, ...)
MainGenerateReport ==
  /\ agent = "main"
  /\ phase = "analysis"
  /\ phase' = "reports"
  /\ reportInput' = decisionResult
  /\ UNCHANGED <<skipClaude, analysisCalls>>
  /\ UNCHANGED hubVars
  /\ UNCHANGED <<scannerVars, triageVars, cancelled>>

\* the scanner at rest, a fresh hub, the scan results and the skip option
InitWorkflow ==
  /\ options = Constructor([maxWorkers |-> 0, retryAttempts |-> 0])
  /\ pc = "idle"
  /\ urls = << >>
  /\ callNo = 0
  /\ browser = "null"
  /\ browserProc = "none"
  /\ workQueue = << >>
  /\ workers = NoWorkers
  /\ results = << >>
  /\ processedCount = 0
  /\ totalUrlsToProcess = 0
  /\ pending = "none"
  /\ outcome = "none"
  /\ summary = NoSummary
  /\ attemptLog = NoWorkers
  /\ inputPage = NoPage
  /\ inputBatch \in SeqsUpTo(BatchPages, MaxWorkflowBatch)
  /\ agent = "none"
  /\ returned = NoDecision
  /\ enhancedDecisions = << >>
  /\ decisionResult = NoCategorized
  /\ patternHistory = NoHistory
  /\ calls = 0
  /\ previous = NoDecision
  /\ skipClaude \in BOOLEAN
  /\ phase = "none"
  /\ analysisCalls = << >>
  /\ reportInput = NoCategorized
  /\ cancelled = NotCancelled
  /\ messageQueue = [a \in AgentTypes |-> << >>]
  /\ coordinationState = {}
  /\ idsIssued = 0
  /\ requestUrls = << >>
  /\ correlationId = NoId
  /\ waitClock = 0
  /\ waitResult = "none"
  /\ prioritizedUrls = << >>

NextWorkflow ==
  \/ MakeEnhancedDecisions
  \/ \E alert, costly \in BOOLEAN : PerformAdaptiveAnalysis(alert, costly)
  \/ GenerateEnhancedReports
  \/ MainCategorizeResults
  \/ MainAnalysis
  \/ MainGenerateReport

SpecWorkflow == InitWorkflow /\ [][NextWorkflow]_vars

\* =================================================================== claims
\* ---- the scanner, under Spec
CallEnded == pc = "idle" /\ callNo > 0
Launched == outcome # "launchError"

\* the results pushed by the running (or last) call
CallResults ==
  LET OfCall(r) == r.call = callNo
  IN Filter(results, OfCall)

ResultsFor(i) == {k \in DOMAIN CallResults : CallResults[k].index = i}

\* everything the workers of this call attempted
AllAttempts == UNION {Range(attemptLog[w]) : w \in DOMAIN attemptLog}
AttemptsOf(i) == {a \in AllAttempts : a.index = i}

FindingListsEmpty(page) ==
  /\ page.violations = << >>
  /\ page.passes = << >>
  /\ page.incomplete = << >>
  /\ page.inapplicable = << >>

\* C1: a scanPages call on N URLs that got its browser ends with exactly N
\* results recorded by that call, one for each position of the URL list and
\* carrying the URL at that position, none missing and none twice.
C1_OneResultPerUrl ==
  (CallEnded /\ Launched) =>
     /\ Len(CallResults) = Len(urls)
     /\ \A i \in 0..(Len(urls) - 1) :
          /\ Cardinality(ResultsFor(i)) = 1
          /\ \A k \in ResultsFor(i) :
               /\ CallResults[k].url = urls[i + 1]
               /\ CallResults[k].result.url = urls[i + 1]

\* a call on a list with a duplicate URL ended with a failed and a
\* successful result
C1_Witness ==
  /\ CallEnded /\ Launched
  /\ Len(urls) = 2 /\ urls[1] = urls[2]
  /\ \E j, k \in DOMAIN CallResults :
       IsError(CallResults[j].result) /\ ~IsError(CallResults[k].result)

\* C2: a URL whose every attempt failed gets a result with error set and the
\* four finding lists empty; the call still records a result for every
\* other URL and does not throw because of the failed URL.
C2_FailureContained ==
  /\ \A k \in DOMAIN CallResults :
       LET r == CallResults[k]
       IN (\A a \in AttemptsOf(r.index) : ~a.ok) =>
             /\ r.result.error # NoError /\ r.result.error # ""
             /\ FindingListsEmpty(r.result)
  /\ (CallEnded /\ Launched /\ \E k \in DOMAIN CallResults : IsError(CallResults[k].result)) =>
       /\ \A i \in 0..(Len(urls) - 1) : ResultsFor(i) # {}
       /\ outcome \in {"returned", "saveError"}

\* a call returned normally with one URL failed on an error without a
\* message and another URL scanned successfully
C2_Witness ==
  /\ CallEnded /\ outcome = "returned"
  /\ \E j, k \in DOMAIN CallResults :
       /\ CallResults[j].result.error = "Unknown error"
       /\ ~IsError(CallResults[k].result)
       /\ CallResults[k].result.violations # << >>

\* C6: a URL whose attempts all fail undergoes exactly retryAttempts
\* attempts before its error result is recorded; a URL that succeeds on
\* attempt k undergoes exactly k <= retryAttempts attempts, the first k-1
\* failed, and has no error; all attempts of a URL are made by one worker,
\* one after the other, before that worker attempts another URL.
AttemptNumbers(i) == {a.attempt : a \in AttemptsOf(i)}

C7_LaunchFailure ==
  /\ (pc = "cleanup" /\ pending = "launchError") \/ (CallEnded /\ outcome = "launchError") =>
       /\ CallResults = << >>
       /\ workers = NoWorkers
       /\ attemptLog = NoWorkers
       /\ browserProc # "running"
  /\ (CallEnded /\ browserProc = "none") => outcome = "launchError"

\* a call on a non-empty URL list ended by throwing the launch error
C7_Witness ==
  /\ CallEnded /\ outcome = "launchError" /\ Len(urls) = MaxUrls

\* C8: after a successful launch the browser is closed when scanPages
\* returns or throws, and the browser is never closed while a worker is
\* still running.
C8_BrowserClosed ==
  /\ (CallEnded /\ Launched) => (browserProc = "closed" /\ browser = "null")
  /\ browserProc = "closed" => AllWorkersDone
  /\ pc = "idle" => browserProc # "running"

\* a call in which a URL failed ended by throwing the save error, with
\* the browser closed
C8_Witness ==
  /\ CallEnded /\ outcome = "saveError" /\ browserProc = "closed"
  /\ \E k \in DOMAIN CallResults : IsError(CallResults[k].result)

\* C9: at every moment the number of pages open against the browser is at
\* most the configured maxWorkers.
OpenPages == {w \in DOMAIN workers : workers[w].pc = "scanning"}
BusyWorkers == {w \in DOMAIN workers : workers[w].pc # "done"}

RECURSIVE Pow2(_)
Pow2(n) == IF n = 0 THEN 1 ELSE 2 * Pow2(n - 1)

\* the delay after the first failed attempt
BaseDelay == BackoffDelay(1)

\* the attempts the workers logged
LoggedAttempts ==
  UNION {{attemptLog[w][k] : k \in DOMAIN attemptLog[w]} : w \in DOMAIN attemptLog}

\* C14: the wait between failed attempt k and the next attempt of the same
\* URL is baseDelay * 2^(k-1) for every k < maxRetries and every configured
\* maxRetries, and no wait follows the last failed attempt.
C14_ExponentialBackoff ==
  \A e \in LoggedAttempts :
     ~e.ok =>
       IF e.attempt < options.retryAttempts
       THEN e.wait = BaseDelay * Pow2(e.attempt - 1)
       ELSE e.wait = 0

\* C14, what the code does: the wait after failed attempt k is baseDelay * k
\* for every k < maxRetries, which is baseDelay * 2^(k-1) for k = 1 and k = 2
\* only; no wait follows the last failed attempt nor an attempt that returned.
C14_LinearBackoff ==
  \A e \in LoggedAttempts :
     /\ e.ok => e.wait = 0
     /\ ~e.ok =>
          IF e.attempt < options.retryAttempts
          THEN /\ e.wait = BaseDelay * e.attempt
               /\ (e.wait = BaseDelay * Pow2(e.attempt - 1)) <=> (e.attempt <= 2)
          ELSE e.wait = 0

\* the third attempt of a URL failed and a fourth follows
C14_Witness ==
  /\ options.retryAttempts = 4
  /\ \E e \in LoggedAttempts : ~e.ok /\ e.attempt = 3 /\ e.wait > 0
  /\ \E w \in DOMAIN workers : workers[w].pc = "backoff" /\ workers[w].attempt = 3

\* ---- the triage engines and the coordinators, under SpecTriage
\* an engine decided the page inputPage
PageDecided == inputPage # NoPage /\ agent # "none"

\* a coordinator categorized the list inputBatch
BatchDecided == inputPage = NoPage /\ agent # "none"

Reasoning == {"EnhancedDecisionAgentFixed", "EnhancedDecisionAgent"}

SevereCount(page) == Count(page.violations, IsSevere)

IsScanErrorDecision(d) == d.criticalViolations = <<"scan-error">>

ListOf(category) ==
  CASE category = "PASSED" -> decisionResult.passed
    [] category = "MINOR_ISSUES" -> decisionResult.minorIssues
    [] category = "CLAUDE_NEEDED" -> decisionResult.claudeNeeded
    [] category = "CRITICAL" -> decisionResult.critical

\* C3: a page with error set is decided CRITICAL whatever its finding lists
\* hold, by the two reasoning engines with confidence 1.0, exactly one
\* factor and no alternatives; and every failed scan of a batch is in the
\* critical list of the coordinator's output.
C3_ErrorIsCritical ==
  /\ (PageDecided /\ IsError(inputPage)) =>
       /\ returned.category = "CRITICAL"
       /\ agent \in Reasoning =>
            /\ returned.reasoning.decision = "CRITICAL"
            /\ FracEq(returned.reasoning.confidence, Frac(1, 1))
            /\ Len(returned.reasoning.factors) = 1
            /\ returned.reasoning.alternativeDecisions = << >>
  /\ (BatchDecided /\ agent = "DecisionAgent") =>
       Count(decisionResult.critical, IsError) = Count(inputBatch, IsError)
  /\ (BatchDecided /\ agent = "EnhancedAccessibilityOrchestrator") =>
       /\ Count(decisionResult.critical, IsScanErrorDecision)
            = Count(inputBatch, IsError)
       /\ \A i \in DOMAIN inputBatch :
            IsError(inputBatch[i]) =>
              \E j \in DOMAIN decisionResult.critical :
                 /\ decisionResult.critical[j].url = inputBatch[i].url
                 /\ IsScanErrorDecision(decisionResult.critical[j])

\* the fixed engine decided a failed scan whose lists hold violations and
\* more incomplete findings than the limit
C3_Witness ==
  /\ PageDecided /\ agent = "EnhancedDecisionAgentFixed"
  /\ IsError(inputPage)
  /\ SevereCount(inputPage) >= criticalViolationsLimit
  /\ Len(inputPage.incomplete) > incompleteResultsLimit
  /\ returned.category = "CRITICAL"

\* C4, as the claim states it: an error-free page with at least
\* criticalViolationsLimit serious or critical violations is decided
\* CRITICAL with confidence >= 0.95 by makeDecisionWithReasoning.
C4_CriticalVolume ==
  (PageDecided /\ agent \in Reasoning /\ ~IsError(inputPage)
     /\ SevereCount(inputPage) >= criticalViolationsLimit) =>
       /\ returned.category = "CRITICAL"
       /\ ~FracLess(returned.reasoning.confidence, Frac(95, 100))

\* C4, what the two engines do with such a page: the fixed engine returns
\* CRITICAL with confidence 0.95; EnhancedDecisionAgent returns CLAUDE_NEEDED
\* with confidence 1.0 and the high-priority flag, never CRITICAL.
C4_CriticalVolumeByEngine ==
  (PageDecided /\ agent \in Reasoning /\ ~IsError(inputPage)
     /\ SevereCount(inputPage) >= criticalViolationsLimit) =>
       IF agent = "EnhancedDecisionAgentFixed"
       THEN /\ returned.category = "CRITICAL"
            /\ FracEq(returned.reasoning.confidence, Frac(95, 100))
       ELSE /\ returned.category = "CLAUDE_NEEDED"
            /\ FracEq(returned.reasoning.confidence, Frac(1, 1))
            /\ returned.isHighPriority

\* EnhancedDecisionAgent decided an error-free page with six critical or
\* serious violations, none of them a complex or visual rule
C4_Witness ==
  /\ PageDecided /\ agent = "EnhancedDecisionAgent"
  /\ ~IsError(inputPage)
  /\ SevereCount(inputPage) = 6
  /\ GetComplexViolations(inputPage.violations) = << >>
  /\ Count(inputPage.violations, NeedsVisualVerification) = 0
  /\ returned.category # "CRITICAL"

\* C5, as the claim states it: an error-free page without violations is
\* decided PASSED with confidence exactly 1.0 by makeDecisionWithReasoning,
\* whatever the number of its incomplete findings.
C5_NoViolationsPassed ==
  (PageDecided /\ agent \in Reasoning /\ ~IsError(inputPage)
     /\ inputPage.violations = << >>) =>
       /\ returned.category = "PASSED"
       /\ FracEq(returned.reasoning.confidence, Frac(1, 1))

\* C5, what the two engines do with such a page: the fixed engine returns
\* PASSED with confidence 1.0 up to incompleteResultsLimit incomplete findings
\* and CLAUDE_NEEDED with confidence 0.8 above; EnhancedDecisionAgent returns
\* PASSED with confidence 0.875 for any number of incomplete findings.
C5_NoViolationsByEngine ==
  (PageDecided /\ agent \in Reasoning /\ ~IsError(inputPage)
     /\ inputPage.violations = << >>) =>
       IF agent = "EnhancedDecisionAgentFixed"
       THEN IF Len(inputPage.incomplete) <= incompleteResultsLimit
            THEN /\ returned.category = "PASSED"
                 /\ FracEq(returned.reasoning.confidence, Frac(1, 1))
            ELSE /\ returned.category = "CLAUDE_NEEDED"
                 /\ FracEq(returned.reasoning.confidence, Frac(8, 10))
       ELSE /\ returned.category = "PASSED"
            /\ FracEq(returned.reasoning.confidence, Frac(875, 1000))

\* EnhancedDecisionAgent decided an error-free page with no violations and
\* no incomplete findings, with a confidence below 1.0
C5_Witness ==
  /\ PageDecided /\ agent = "EnhancedDecisionAgent"
  /\ ~IsError(inputPage)
  /\ inputPage.violations = << >> /\ inputPage.incomplete = << >>
  /\ returned.category = "PASSED"
  /\ FracLess(returned.reasoning.confidence, Frac(1, 1))

\* C10: a coordinator puts every page of its input in exactly one of the
\* four lists, the list of the category the engine decides for it: each
\* list holds only entries of its category, as many as the input has pages
\* of that category, and the four lengths sum to the length of the input.
C10_Partition ==
  /\ (BatchDecided /\ agent = "DecisionAgent") =>
       /\ \A k \in DOMAIN Categories :
            LET c == Categories[k]
            IN /\ \A j \in DOMAIN ListOf(c) :
                    /\ DA_MakeDecision(ListOf(c)[j]).category = c
                    /\ ListOf(c)[j] \in Range(inputBatch)
               /\ Len(ListOf(c)) =
                    Cardinality({i \in DOMAIN inputBatch :
                                   DA_MakeDecision(inputBatch[i]).category = c})
       /\ Len(decisionResult.passed) + Len(decisionResult.minorIssues)
            + Len(decisionResult.claudeNeeded) + Len(decisionResult.critical)
          = Len(inputBatch)
  /\ (BatchDecided /\ agent = "EnhancedAccessibilityOrchestrator") =>
       /\ Len(enhancedDecisions) = Len(inputBatch)
       /\ \A i \in DOMAIN inputBatch :
            /\ enhancedDecisions[i].url = inputBatch[i].url
            /\ enhancedDecisions[i].category \in Range(Categories)
       /\ \A k \in DOMAIN Categories :
            LET c == Categories[k]
            IN /\ \A j \in DOMAIN ListOf(c) : ListOf(c)[j].category = c
               /\ Len(ListOf(c)) =
                    Cardinality({i \in DOMAIN enhancedDecisions :
                                   enhancedDecisions[i].category = c})
       /\ Len(decisionResult.passed) + Len(decisionResult.minorIssues)
            + Len(decisionResult.claudeNeeded) + Len(decisionResult.critical)
          = Len(inputBatch)

\* the orchestrator categorized a list of four pages, one into each list
C10_Witness ==
  /\ BatchDecided /\ agent = "EnhancedAccessibilityOrchestrator"
  /\ Len(inputBatch) = 4
  /\ Len(decisionResult.passed) = 1 /\ Len(decisionResult.minorIssues) = 1
  /\ Len(decisionResult.claudeNeeded) = 1 /\ Len(decisionResult.critical) = 1

\* the pairs <<page, decision>> the fixed engine decided, called directly or
\* through the map of makeEnhancedDecisions
FixedDecided ==
  IF PageDecided /\ agent = "EnhancedDecisionAgentFixed" /\ returned # Thrown
  THEN {<<inputPage, returned>>}
  ELSE IF BatchDecided /\ agent = "EnhancedAccessibilityOrchestrator"
          /\ returned # Thrown
  THEN {<<inputBatch[i], enhancedDecisions[i]>> : i \in DOMAIN inputBatch}
  ELSE {}

\* the pairs <<page, decision>> the score-based engine decided
EnhancedDecided ==
  IF PageDecided /\ agent = "EnhancedDecisionAgent" /\ returned # Thrown
  THEN {<<inputPage, returned>>}
  ELSE {}

\* C11: makeDecisionWithReasoning returns category CRITICAL only when the
\* page has error set or its number of serious/critical violations is at
\* least criticalThreshold; a page with fewer serious/critical violations
\* and no error is never CRITICAL.
C11_CriticalReserved ==
  \A pd \in FixedDecided \cup EnhancedDecided :
     pd[2].category = "CRITICAL" =>
       IsError(pd[1]) \/ SevereCount(pd[1]) >= criticalViolationsLimit

\* C11, what each engine does: the fixed engine returns CRITICAL exactly for
\* a failed scan or a page at or above the threshold; the score-based engine
\* returns CRITICAL for a failed scan, never at or above the threshold, and
\* below it only for pages with at least one serious/critical violation, a
\* single critical violation being enough.
C11_CriticalByEngine ==
  /\ \A pd \in FixedDecided :
        pd[2].category = "CRITICAL" <=>
          (IsError(pd[1]) \/ SevereCount(pd[1]) >= criticalViolationsLimit)
  /\ \A pd \in EnhancedDecided :
        /\ pd[2].category = "CRITICAL" =>
             \/ IsError(pd[1])
             \/ /\ SevereCount(pd[1]) >= 1
                /\ SevereCount(pd[1]) < criticalViolationsLimit
        /\ (~IsError(pd[1]) /\ Ids(pd[1].violations) = <<"image-alt">>) =>
             pd[2].category = "CRITICAL"

\* the score-based engine decided an error-free page with one critical
\* violation
C11_Witness ==
  /\ \E pd \in EnhancedDecided :
        /\ ~IsError(pd[1])
        /\ Ids(pd[1].violations) = <<"image-alt">>
        /\ pd[2].category = "CRITICAL"
  /\ calls = 1

\* the priority the rule of the claim gives a list of violations
PriorityRule(v) ==
  LET critical == {i \in DOMAIN v : v[i].impact = "critical"}
      serious == {i \in DOMAIN v : v[i].impact = "serious"}
  IN IF critical # {} THEN "Critical"
     ELSE IF Cardinality(serious) >= 3 THEN "High"
     ELSE IF Cardinality(serious) >= 1 \/ Len(v) >= 5 THEN "Medium"
     ELSE "Low"

TriggeredFloors(page) ==
  LET v == page.violations
      Named(keyword) == {i \in DOMAIN v : IdIncludes(v[i].id, keyword)}
      complex == {i \in DOMAIN v : IsComplexViolation(v[i])}
      visual == {i \in DOMAIN v : NeedsVisualVerification(v[i])}
      focusKeyboard == Named("focus") \cup Named("keyboard") \cup Named("tabindex")
  IN (IF complex # {} THEN {85} ELSE {})
     \cup (IF Len(page.incomplete) > incompleteResultsLimit THEN {80} ELSE {})
     \cup (IF visual # {} THEN {90} ELSE {})
     \cup (IF Cardinality(focusKeyboard) >= 2 THEN {85} ELSE {})
     \cup (IF Cardinality(Named("aria")) >= 3 THEN {80} ELSE {})
     \cup (IF SevereCount(page) \in 1..(criticalViolationsLimit - 1)
           THEN {75} ELSE {})

MaxOf(S) == CHOOSE x \in S : \A y \in S : y <= x

C13_MinorIssues ==
  \A pd \in FixedDecided :
     pd[2].category = "MINOR_ISSUES" =>
       /\ FracEq(pd[2].reasoning.confidence, Frac(8, 10))
       /\ Len(pd[1].violations) >= 1
       /\ \A i \in DOMAIN pd[1].violations :
             /\ ~IsSevere(pd[1].violations[i])
             /\ ~IsComplexViolation(pd[1].violations[i])
             /\ ~NeedsVisualVerification(pd[1].violations[i])

\* the fixed engine decided a page with two moderate violations as
\* MINOR_ISSUES
C13_Witness ==
  \E pd \in FixedDecided :
     /\ pd[2].category = "MINOR_ISSUES"
     /\ Len(pd[1].violations) = 2

\* the entry a call on page that decided category leaves in the history
MemoryEntry(page, category) ==
  [url |-> page.url, violationTypes |-> Ids(page.violations), decision |-> category]

\* history after is history before with the entries added, in order, to
\* the end of the history of domain, and nothing else changed
AppendedTo(before, after, domain, added) ==
  /\ DOMAIN after = DOMAIN before \cup (IF added = << >> THEN {} ELSE {domain})
  /\ \A d \in DOMAIN after :
        after[d] = IF d = domain THEN HistoryOf(before, d) \o added
                   ELSE before[d]

\* a step that is one call of makeDecisionWithReasoning on inputPage
DecideStep ==
  /\ inputPage # NoPage
  /\ calls' = calls + 1
  /\ agent' \in Reasoning

\* a step that is one call of makeEnhancedDecisions on inputBatch
BatchDecideStep ==
  /\ inputPage = NoPage
  /\ calls' = calls + 1
  /\ agent' = "EnhancedAccessibilityOrchestrator"

\* the entries the pages of inputBatch that satisfy Recorded and lie in
\* domain leave, in the order of the batch
BatchEntries(domain, decisions, Recorded(_)) ==
  LET pairs == [i \in DOMAIN inputBatch |-> <<inputBatch[i], decisions[i]>>]
      Kept(pr) == Hostname(pr[1].url) = domain /\ Recorded(pr[1])
      kept == SelectSeq(pairs, Kept)
  IN [i \in DOMAIN kept |-> MemoryEntry(kept[i][1], kept[i][2].category)]

AnyPage(page) == TRUE
NotFailed(page) == ~IsError(page)

\* C16: every call of makeDecisionWithReasoning, whichever branch it returns
\* from (scan error, critical volume, review needed, passed, minor), appends
\* exactly one entry with the url, the violation ids and the decided
\* category to the history of the URL's hostname, and leaves the history of
\* every other domain and all earlier entries unchanged.
C16_MemoryAppended ==
  [][/\ DecideStep =>
          AppendedTo(patternHistory, patternHistory', Hostname(inputPage.url),
                     <<MemoryEntry(inputPage, returned'.category)>>)
     /\ BatchDecideStep =>
          \A d \in {Hostname(u) : u \in Urls} :
             HistoryOf(patternHistory', d)
               = BatchEntries(d, enhancedDecisions', AnyPage)]_vars

\* C16, what the code does: a call that returns from the scan-error branch
\* leaves the learning memory as it was; a call that returns from any other
\* branch appends exactly one entry to the history of the URL's hostname and
\* changes nothing else.
C16_MemoryByBranch ==
  [][/\ DecideStep =>
          AppendedTo(patternHistory, patternHistory', Hostname(inputPage.url),
                     IF IsError(inputPage) THEN << >>
                     ELSE <<MemoryEntry(inputPage, returned'.category)>>)
     /\ BatchDecideStep =>
          \A d \in {Hostname(u) : u \in Urls} :
             HistoryOf(patternHistory', d)
               = BatchEntries(d, enhancedDecisions', NotFailed)]_vars

\* a reasoning engine decided a failed scan and its memory is still empty
C16_Witness ==
  /\ PageDecided
  /\ agent \in Reasoning
  /\ IsError(inputPage)
  /\ returned.category = "CRITICAL"
  /\ patternHistory = NoHistory

\* ---- the triage entry points on odd results, under SpecMalformed
\* every violation of the page has a rule id no engine knows
OnlyUnknownIds(page) ==
  /\ page.violations # << >>
  /\ \A i \in DOMAIN page.violations :
        \A pair \in IdIncludesTable : pair[1] # page.violations[i].id

\* C17: makeDecisionWithReasoning never throws for a PageScanResult whose
\* fields have the declared types, including a url string that is not an
\* absolute parseable URL, violations with unknown rule ids and violations
\* with no nodes; a violation with an unknown id is counted as an ordinary
\* violation.
C17_NeverThrows ==
  /\ (PageDecided /\ agent \in Reasoning) =>
       /\ returned # Thrown
       /\ (~IsError(inputPage) /\ OnlyUnknownIds(inputPage)) =>
            /\ returned.category \in {"MINOR_ISSUES", "CLAUDE_NEEDED", "CRITICAL"}
            /\ Len(returned.criticalViolations) = SevereCount(inputPage)
            /\ returned.complexViolations = << >>
  /\ (BatchDecided /\ agent = "EnhancedAccessibilityOrchestrator") =>
       returned # Thrown

\* C17, what the code does: makeDecisionWithReasoning of either engine
\* throws exactly when the page has no error and its url is not an absolute
\* URL, and then leaves the learning memory as it was; makeEnhancedDecisions
\* throws exactly when its list holds such a page; a violation with an
\* unknown id, with or without nodes, is counted as an ordinary violation by
\* every call that returns.
C17_ThrowsOnUnparseableUrl ==
  /\ (PageDecided /\ agent \in Reasoning) =>
       /\ returned = Thrown <=>
            (~IsError(inputPage) /\ ~ParsesAsUrl(inputPage.url))
       /\ returned = Thrown => patternHistory = NoHistory
       /\ (returned # Thrown /\ ~IsError(inputPage) /\ OnlyUnknownIds(inputPage)) =>
            /\ returned.category \in {"MINOR_ISSUES", "CLAUDE_NEEDED", "CRITICAL"}
            /\ Len(returned.criticalViolations) = SevereCount(inputPage)
            /\ returned.complexViolations = << >>
  /\ (BatchDecided /\ agent = "EnhancedAccessibilityOrchestrator") =>
       returned = Thrown <=>
         \E i \in DOMAIN inputBatch :
            ~IsError(inputBatch[i]) /\ ~ParsesAsUrl(inputBatch[i].url)

\* the fixed engine was called on an error-free page whose url is not an
\* absolute URL and whose violation has an unknown id, and threw
C17_Witness ==
  /\ PageDecided
  /\ agent = "EnhancedDecisionAgentFixed"
  /\ ~IsError(inputPage)
  /\ ~ParsesAsUrl(inputPage.url)
  /\ OnlyUnknownIds(inputPage)
  /\ returned = Thrown

\* ---- repeated calls, under SpecTriage
\* the same page was decided a second (or later) time by the same engine
DecidedAgain ==
  PageDecided /\ agent \in Reasoning /\ calls >= 2 /\ returned # Thrown

SameAlternatives(a, b) ==
  /\ Len(a) = Len(b)
  /\ \A i \in DOMAIN a :
        /\ a[i].decision = b[i].decision
        /\ FracEq(a[i].confidence, b[i].confidence)

SameVerdict(a, b) ==
  /\ a.category = b.category
  /\ FracEq(a.reasoning.confidence, b.reasoning.confidence)
  /\ a.priority = b.priority
  /\ SameAlternatives(a.reasoning.alternativeDecisions,
                      b.reasoning.alternativeDecisions)

\* the range whose upper end is one and a half times the upper end of range,
\* put back into the fixed ranges
RaisedEffort(range) ==
  CASE range = "0.5-1 hours" -> "1-2 hours"
    [] range = "1-2 hours" -> "2-4 hours"
    [] range = "2-4 hours" -> "4-8 hours"
    [] range = "4-8 hours" -> "8-16 hours"
    [] OTHER -> "16+ hours"

ScoresOf(page) ==
  Enh_CalculateDecisionScores(
    Enh_AnalyzeViolationsInContext(page.violations, page.incomplete)
      \o Enh_AnalyzeHistoricalPatterns(page.url, NoHistory)
      \o Enh_ApplyHeuristicReasoning(page.violations),
    page.violations)

InUnitInterval(f) == f.den > 0 /\ f.num >= 0 /\ f.num <= f.den

\* C19: in EnhancedDecisionAgent the selected category is one with the
\* highest normalized score, and the reported confidence equals
\* min(1, 2 x (highest score - second highest score)), so the confidence of
\* every decision and of every alternative lies in [0,1].
C19_ConfidenceIsGap ==
  \A pd \in EnhancedDecided :
     /\ InUnitInterval(pd[2].reasoning.confidence)
     /\ \A i \in DOMAIN pd[2].reasoning.alternativeDecisions :
           InUnitInterval(pd[2].reasoning.alternativeDecisions[i].confidence)
     /\ (~IsError(pd[1]) /\ calls = 1) =>
          LET scores == ScoresOf(pd[1])
              Score(c) == scores.num[c]
              all == {Categories[k] : k \in DOMAIN Categories}
              top == MaxOf({Score(c) : c \in all})
              tied == {c \in all : Score(c) = top}
              second == IF Cardinality(tied) > 1 THEN top
                        ELSE MaxOf({Score(c) : c \in all \ tied})
          IN /\ Score(pd[2].category) = top
             /\ FracEq(pd[2].reasoning.confidence,
                       IF 2 * (top - second) >= scores.den THEN Frac(1, 1)
                       ELSE Frac(2 * (top - second), scores.den))

\* the score-based engine decided a page at the critical threshold, where
\* twice the gap exceeds 1
C19_Witness ==
  \E pd \in EnhancedDecided :
     /\ ~IsError(pd[1])
     /\ calls = 1
     /\ SevereCount(pd[1]) >= criticalViolationsLimit
     /\ FracEq(pd[2].reasoning.confidence, Frac(1, 1))

\* C20: the alternatives of every decision never contain the selected
\* category, number at most 2, and are listed in non-increasing order of
\* confidence.
C20_Alternatives ==
  \A pd \in FixedDecided \cup EnhancedDecided :
     LET alternatives == pd[2].reasoning.alternativeDecisions
     IN /\ Len(alternatives) <= 2
        /\ \A i \in DOMAIN alternatives :
              alternatives[i].decision # pd[2].category
        /\ \A i, j \in DOMAIN alternatives :
              i < j => ~FracLess(alternatives[i].confidence,
                                 alternatives[j].confidence)

\* the score-based engine returned two alternatives, the one later in the
\* order of the score map first
C20_Witness ==
  \E pd \in EnhancedDecided :
     LET alternatives == pd[2].reasoning.alternativeDecisions
     IN /\ pd[2].category = "CLAUDE_NEEDED"
        /\ Len(alternatives) = 2
        /\ alternatives[1].decision = "CRITICAL"
        /\ alternatives[2].decision = "MINOR_ISSUES"
        /\ FracLess(alternatives[2].confidence, alternatives[1].confidence)

\* ---- the hub, under SpecCoordination
\* the scanner's prioritization request was made and handled
PrioritizationRequested == correlationId # NoId

\* the responses in the queue of the requester
ScannerResponses == GetMessages(Hub, "bulk-scanner", "response")

\* C28: after requestPrioritization and handleCoordinationRequests the queue
\* of the requester holds exactly one response, whose correlationId is the
\* id requestCoordination returned, so waitForResponse returns before its
\* timeout; the request is gone from the queue of the orchestrator; and the
\* url list chosen for the scan is the prioritized list of that response.
C28_ResponseCorrelated ==
  /\ PrioritizationRequested =>
       /\ Len(ScannerResponses) = 1
       /\ ScannerResponses[1].correlationId = correlationId
       /\ GetMessages(Hub, "orchestrator", "coordination") = << >>
       /\ waitResult # "timeout"
       /\ waitClock < WaitTimeout
  /\ phase = "prioritized" =>
       /\ waitResult = "found"
       /\ prioritizedUrls = ScannerResponses[1].payload.prioritized

\* C28 as the code has it: the request is answered exactly once and removed,
\* but the response carries the id of the request message, not the
\* correlation id returned, so waitForResponse never finds it and returns
\* only at its timeout; the url list chosen is the prioritized one all the
\* same, because the sort is in place on the caller's array.
C28_ResponseUncorrelated ==
  /\ PrioritizationRequested =>
       /\ Len(ScannerResponses) = 1
       /\ ScannerResponses[1].correlationId.kind = "msg"
       /\ correlationId.kind = "corr"
       /\ correlationId \in coordinationState
       /\ ScannerResponses[1].correlationId # correlationId
       /\ GetMessages(Hub, "orchestrator", "coordination") = << >>
       /\ waitResult # "found"
       /\ waitResult = "timeout" <=> waitClock >= WaitTimeout
       /\ requestUrls = ScannerResponses[1].payload.prioritized
  /\ phase = "prioritized" =>
       /\ waitResult = "timeout"
       /\ waitClock = WaitTimeout
       /\ prioritizedUrls = ScannerResponses[1].payload.prioritized

\* the scanner asked to prioritize a list the sort reorders, waited until
\* the timeout, and the reordered list was chosen for the scan
C28_Witness ==
  /\ phase = "prioritized"
  /\ waitResult = "timeout"
  /\ prioritizedUrls = <<"https://b.example/", "https://a.example/x">>
  /\ Len(ScannerResponses) = 1
  /\ \E i, j \in DOMAIN prioritizedUrls :
       i < j /\ UrlLength(prioritizedUrls[i]) < UrlLength(prioritizedUrls[j])

\* ---- the two workflows, under SpecWorkflow
Enhanced == agent = "EnhancedAccessibilityOrchestrator"
Main == agent = "main"

\* the analysis phase of the workflow is over
AnalysisDone == phase \in {"analysis", "reports"}

\* the category of the decision made for the scan result at position i
CategoryAt(i) ==
  IF Enhanced THEN enhancedDecisions[i].category
  ELSE CASE ScannerCategoryOf(ResultsOf(inputBatch)[i]) = "passed" -> "PASSED"
         [] ScannerCategoryOf(ResultsOf(inputBatch)[i]) = "minorIssues" -> "MINOR_ISSUES"
         [] ScannerCategoryOf(ResultsOf(inputBatch)[i]) = "claudeNeeded" -> "CLAUDE_NEEDED"
         [] ScannerCategoryOf(ResultsOf(inputBatch)[i]) = "critical" -> "CRITICAL"

\* the positions of inputBatch whose decision has a category in cs, in order
RECURSIVE PositionsFrom(_, _)
PositionsFrom(cs, k) ==
  IF k > Len(inputBatch) THEN << >>
  ELSE IF CategoryAt(k) \in cs THEN <<k>> \o PositionsFrom(cs, k + 1)
  ELSE PositionsFrom(cs, k + 1)

\* every request of every call of processComplexIssues, in order
RECURSIVE RequestsFrom(_)
RequestsFrom(k) ==
  IF k > Len(analysisCalls) THEN << >>
  ELSE analysisCalls[k] \o RequestsFrom(k + 1)

Forwarded == RequestsFrom(1)

\* C21: unless analysis is skipped, the pages forwarded to
\* processComplexIssues are, in order and once each, the pages whose
\* decision is CLAUDE_NEEDED or CRITICAL; pages of the two other categories
\* are never forwarded.
C21_ForwardedForAnalysis ==
  (AnalysisDone /\ ~skipClaude) =>
    LET due == PositionsFrom({"CLAUDE_NEEDED", "CRITICAL"}, 1)
    IN /\ Len(Forwarded) = Len(due)
       /\ \A k \in DOMAIN due : Forwarded[k].url = inputBatch[due[k]].url

\* C21 as the code has it: the pages forwarded are, in order and once each,
\* the pages whose decision is CLAUDE_NEEDED, in one call, made only when
\* there is such a page and analysis is not skipped; CRITICAL pages are
\* forwarded no more than PASSED and MINOR_ISSUES pages.
C21_ReviewNeededForwarded ==
  /\ ~AnalysisDone => analysisCalls = << >>
  /\ AnalysisDone =>
       LET due == PositionsFrom({"CLAUDE_NEEDED"}, 1)
       IN IF skipClaude \/ due = << >>
          THEN analysisCalls = << >>
          ELSE /\ Len(analysisCalls) = 1
               /\ Len(Forwarded) = Len(due)
               /\ \A k \in DOMAIN due :
                    /\ Forwarded[k].url = inputBatch[due[k]].url
                    /\ Enhanced =>
                         Forwarded[k].priority = enhancedDecisions[due[k]].priority
                    /\ Main =>
                         Forwarded[k].violations = inputBatch[due[k]].violations

\* analysis ran on a list with a CLAUDE_NEEDED page and a CRITICAL page, and
\* one request was made
C21_Witness ==
  /\ AnalysisDone /\ ~skipClaude /\ Enhanced
  /\ Len(decisionResult.claudeNeeded) = 1
  /\ Len(decisionResult.critical) >= 1
  /\ Len(analysisCalls) = 1 /\ Len(Forwarded) = 1

\* the scan results of inputBatch at the given positions
AtPositions(positions) == [k \in DOMAIN positions |-> inputBatch[positions[k]]]

ReportList(category) ==
  CASE category = "PASSED" -> reportInput.passed
    [] category = "MINOR_ISSUES" -> reportInput.minorIssues
    [] category = "CLAUDE_NEEDED" -> reportInput.claudeNeeded
    [] category = "CRITICAL" -> reportInput.critical

\* C22: with the same url more than once in the input, the partition handed
\* to the report generator has every scan result in exactly one list, that
\* of its own decision, and the request built for a decision carries the
\* violations of the scan result that decision was made for.
C22_OwnDecisionKept ==
  /\ phase = "reports" =>
       \A k \in DOMAIN Categories :
         ReportList(Categories[k]) = AtPositions(PositionsFrom({Categories[k]}, 1))
  /\ (AnalysisDone /\ analysisCalls # << >>) =>
       LET due == PositionsFrom({"CLAUDE_NEEDED"}, 1)
       IN \A k \in DOMAIN due :
            Forwarded[k].violations = inputBatch[due[k]].violations

\* whether some decision made for a result of that url has the category
UrlDecided(url, category) ==
  \E i \in DOMAIN inputBatch : inputBatch[i].url = url /\ CategoryAt(i) = category

\* the first position of inputBatch with that url
FirstOfUrl(url) ==
  CHOOSE i \in DOMAIN inputBatch :
    /\ inputBatch[i].url = url
    /\ \A j \in DOMAIN inputBatch : inputBatch[j].url = url => i <= j

\* C22 as the code has it: main keeps every result with its own decision;
\* the enhanced workflow matches results and decisions by url, so a result
\* is in the list of every category decided for a result of its url, and a
\* request carries the violations of the first result of its url.  The two
\* agree when no url repeats.
C22_MatchedByUrl ==
  /\ (phase = "reports" /\ Main) =>
       \A k \in DOMAIN Categories :
         ReportList(Categories[k]) = AtPositions(PositionsFrom({Categories[k]}, 1))
  /\ (phase = "reports" /\ Enhanced) =>
       \A k \in DOMAIN Categories :
         LET c == Categories[k]
         IN /\ \A i \in DOMAIN inputBatch :
                 UrlDecided(inputBatch[i].url, c) <=> inputBatch[i] \in Range(ReportList(c))
            /\ Len(ReportList(c)) =
                 Cardinality({i \in DOMAIN inputBatch : UrlDecided(inputBatch[i].url, c)})
  /\ (AnalysisDone /\ analysisCalls # << >>) =>
       LET due == PositionsFrom({"CLAUDE_NEEDED"}, 1)
       IN \A k \in DOMAIN due :
            Forwarded[k].violations =
              IF Main THEN inputBatch[due[k]].violations
              ELSE inputBatch[FirstOfUrl(inputBatch[due[k]].url)].violations

\* the enhanced workflow reported on two results of one url with different
\* decisions, after a request that carries the violations of the other
\* result
C22_Witness ==
  /\ phase = "reports" /\ Enhanced
  /\ \E i, j \in DOMAIN inputBatch :
       /\ i < j
       /\ inputBatch[i].url = inputBatch[j].url
       /\ CategoryAt(i) # "CLAUDE_NEEDED" /\ CategoryAt(j) = "CLAUDE_NEEDED"
       /\ inputBatch[i] \in Range(reportInput.claudeNeeded)
  /\ Len(Forwarded) = 1
  /\ \E j \in DOMAIN inputBatch :
       /\ CategoryAt(j) = "CLAUDE_NEEDED"
       /\ Forwarded[1].violations # inputBatch[j].violations

\* ---- the scanner with options below 1, under SpecInvalid
InvalidOptions == options.maxWorkers < 1 \/ options.retryAttempts < 1

\* C23: a scanner whose maxWorkers or retryAttempts is negative never
\* launches the browser, never records a result and never returns a
\* summary: its scanPages call ends with an error.
C23_InvalidRejected ==
  InvalidOptions =>
    /\ browserProc = "none" /\ browser = "null"
    /\ results = << >>
    /\ workers = NoWorkers
    /\ outcome # "returned"

\* C23 as the code has it: negative options are kept as given and the scan
\* runs.  With maxWorkers below 1 no worker is created: the call launches
\* and closes the browser and returns a summary of Len(urls) pages with no
\* result.  With retryAttempts below 1 every URL taken gets the error
\* result "Unknown error" without an attempt.
C23_InvalidRuns ==
  /\ (options.maxWorkers < 1 /\ Launched) =>
       /\ workers = NoWorkers
       /\ results = << >>
       /\ pc = "awaitWorkers" => workQueue = Tasks(urls)
  /\ (options.maxWorkers < 1 /\ CallEnded /\ outcome = "returned") =>
       /\ summary.totalPages = Len(urls)
       /\ summary.passedPages + summary.minorIssues
            + summary.claudeAnalysisNeeded + summary.criticalIssues = 0
       /\ browserProc = "closed"
  /\ options.retryAttempts < 1 =>
       /\ AllAttempts = {}
       /\ \A k \in DOMAIN results :
            /\ results[k].result.error = "Unknown error"
            /\ FindingListsEmpty(results[k].result)
       /\ (CallEnded /\ outcome = "returned" /\ options.maxWorkers >= 1) =>
            Len(results) = Len(urls)

\* a scanner with a negative maxWorkers scanned two URLs and returned a
\* summary with no result
C23_Witness ==
  /\ options.maxWorkers < 1
  /\ CallEnded /\ outcome = "returned"
  /\ Len(urls) = 2
  /\ results = << >>
  /\ browserProc = "closed"

\* ------------------------------------------------------------------ C24
WasCancelled == cancelled # NotCancelled

\* C24: when the caller cancels a running scan, no worker takes a further
\* URL from the work queue after the cancellation, every scan in flight
\* completes or fails, and the scan then ends with the browser closed.
\* Stated on the queue: from the cancellation on, the queue keeps the
\* length it had, and the call still ends with the browser closed.
C24_NoDispatchAfterCancel ==
  WasCancelled =>
    /\ Len(workQueue) = cancelled
    /\ CallEnded => browserProc = "closed"

\* what the code does: the cancellation reaches nothing.  The workers go on
\* until the queue is empty, every position of the URL list gets its
\* result, and only then is the browser closed.
C24_CancelIgnored ==
  /\ (WasCancelled /\ pc # "awaitWorkers") =>
       /\ workQueue = << >>
       /\ \A i \in 0..(Len(urls) - 1) : Cardinality(ResultsFor(i)) = 1
  /\ (WasCancelled /\ CallEnded) => browserProc = "closed"
  /\ (WasCancelled /\ browserProc = "closed") => AllWorkersDone

\* the caller cancelled while a URL was still waiting; the call returned
\* with a result for that URL too
C24_Witness ==
  /\ cancelled > 0
  /\ CallEnded /\ outcome = "returned"
  /\ workQueue = << >>
  /\ Len(CallResults) = Len(urls)

\* ------------------------------------------------------------------ C25
\* the range of an estimate given in quarters of an hour
QuarterBucket(q) ==
  IF q <= 4 THEN "0.5-1 hours"
  ELSE IF q <= 8 THEN "1-2 hours"
  ELSE IF q <= 16 THEN "2-4 hours"
  ELSE IF q <= 32 THEN "4-8 hours"
  ELSE IF q <= 64 THEN "8-16 hours"
  ELSE "16+ hours"

\* the affected elements beyond one per violation
RECURSIVE ElementsBeyondOne(_)
ElementsBeyondOne(violations) ==
  IF violations = << >> THEN 0
  ELSE (IF Len(Head(violations).nodes) > 1
        THEN Len(Head(violations).nodes) - 1 ELSE 0)
       + ElementsBeyondOne(Tail(violations))

\* H of the claim, in quarters of an hour: 2 h per serious or critical
\* violation, 0.5 h per other violation, 0.25 h per element beyond one
StatedQuarters(violations) ==
  8 * Count(violations, IsSevere)
  + 2 * (Len(violations) - Count(violations, IsSevere))
  + ElementsBeyondOne(violations)

\* the non-error pages an engine decided on its own entry point, with the
\* decision returned
EffortDecided ==
  IF PageDecided /\ returned # Thrown /\ ~IsError(inputPage)
  THEN {<<inputPage, returned>>}
  ELSE {}

\* C25: the effort estimate of a non-error decision is the bucket of
\* H = 2h x (serious or critical violations) + 0.5h x (other violations)
\* + 0.25h x (affected elements beyond one per violation), each violation
\* counted in exactly one of the two per-violation terms, with the buckets
\* 0.5-1, 1-2, 2-4, 4-8, 8-16 and 16+ hours.
C25_EffortFormula ==
  \A pd \in EffortDecided :
     pd[2].estimatedEffort = QuarterBucket(StatedQuarters(pd[1].violations))

\* what a complex violation adds in DecisionAgent and EnhancedDecisionAgent:
\* 3 h of its own, and 0.5 h less in the term of the simple violations,
\* whether or not it is also counted as serious or critical
WithComplexTerm(violations) ==
  LET severe == Count(violations, IsSevere)
      complex == Count(violations, IsComplexViolation)
      nodes == TotalNodes(violations)
  IN 8 * severe + 12 * complex + 2 * (Len(violations) - severe - complex)
     + (IF nodes > Len(violations) THEN nodes - Len(violations) ELSE 0)

\* the range EnhancedDecisionAgentFixed gives, from tenths of an hour:
\* 0.1 h for every affected element, and no range below 1-2 hours
TenthsBucket(violations) ==
  LET severe == Count(violations, IsSevere)
      tenths == 20 * severe + 5 * (Len(violations) - severe)
                + TotalNodes(violations)
  IN IF tenths <= 20 THEN "1-2 hours"
     ELSE IF tenths <= 40 THEN "2-4 hours"
     ELSE IF tenths <= 80 THEN "4-8 hours"
     ELSE IF tenths <= 160 THEN "8-16 hours"
     ELSE "16+ hours"

\* what the code does: each engine has its own estimate
C25_EffortByEngine ==
  \A pd \in EffortDecided :
     LET v == pd[1].violations
         base == QuarterBucket(WithComplexTerm(v))
     IN pd[2].estimatedEffort =
          CASE agent = "DecisionAgent" ->
                 IF pd[2].category = "PASSED" THEN "0 hours" ELSE base
            [] agent = "EnhancedDecisionAgentFixed" -> TenthsBucket(v)
            [] agent = "EnhancedDecisionAgent" ->
                 IF calls = 2 /\ v # << >> THEN RaisedEffort(base) ELSE base

\* DecisionAgent decided an error-free page whose only violation is both
\* serious and complex, with two affected elements: 2 h + 0.25 h by the
\* stated formula, 2 h + 3 h - 0.5 h + 0.25 h in the code
C25_Witness ==
  /\ PageDecided /\ agent = "DecisionAgent" /\ ~IsError(inputPage)
  /\ Len(inputPage.violations) = 1
  /\ IsSevere(inputPage.violations[1])
  /\ IsComplexViolation(inputPage.violations[1])
  /\ Len(inputPage.violations[1].nodes) = 2
  /\ QuarterBucket(StatedQuarters(inputPage.violations)) = "2-4 hours"
  /\ returned.estimatedEffort = "4-8 hours"

\* ------------------------------------------------------------------ C26
\* the workers that hold a task: taken from the queue, and the loop not yet
\* back at its test
Holding == {w \in DOMAIN workers : workers[w].task # NoTask}
HoldersOf(i) == {w \in Holding : workers[w].task.index = i}
QueuedAt(i) == {k \in DOMAIN workQueue : workQueue[k].index = i}
AttemptedBy(i) ==
  {w \in DOMAIN attemptLog : \E a \in Range(attemptLog[w]) : a.index = i}

\* C26: no URL occurrence is taken from the shared work queue by two
\* workers: the emptiness check and the pop are one atomic step under every
\* interleaving, and a worker that finds the queue empty stops without
\* scanning anything.  While the workers run, every position of the URL
\* list is in exactly one place: waiting in the queue, held by one worker,
\* or finished with its one result.
C26_AtomicPop ==
  pc = "awaitWorkers" =>
    /\ \A i \in 0..(Len(urls) - 1) :
         /\ Cardinality(QueuedAt(i)) + Cardinality(HoldersOf(i))
              + (IF HoldersOf(i) = {} /\ ResultsFor(i) # {} THEN 1 ELSE 0) = 1
         /\ Cardinality(ResultsFor(i)) <= 1
         /\ Cardinality(AttemptedBy(i)) <= 1
         /\ QueuedAt(i) # {} => ResultsFor(i) = {} /\ AttemptedBy(i) = {}
         /\ \A w \in HoldersOf(i) :
              /\ workers[w].task.url = urls[i + 1]
              /\ (ResultsFor(i) # {}) <=> (workers[w].pc = "rateDelay")
    /\ \A w \in DOMAIN workers :
         /\ workers[w].pc = "done" <=> workers[w].task = NoTask
         /\ workers[w].pc = "done" => workQueue = << >>
         /\ workers[w].task # NoTask =>
              workers[w].task.index \in 0..(Len(urls) - 1)
         /\ \A a \in Range(attemptLog[w]) :
              a.index \in 0..(Len(urls) - 1)

\* the same URL was given twice and each of two workers took one occurrence:
\* the first has finished and found the queue empty, the second still scans
\* its own occurrence
C26_Witness ==
  /\ pc = "awaitWorkers"
  /\ Len(urls) = 2 /\ urls[1] = urls[2]
  /\ DOMAIN workers = {0, 1}
  /\ workers[0].pc = "done" /\ attemptLog[0] # << >>
  /\ workers[1].pc = "scanning" /\ workers[1].task.index = 1
  /\ ResultsFor(0) # {} /\ ResultsFor(1) = {}

\* ------------------------------------------------------------------ C27
\* the call went through its workers and ended, returning or throwing the
\* save error
ScanCompleted == CallEnded /\ outcome \in {"returned", "saveError"}

\* the results pushed by the calls before the running (or last) one
EarlierResults == Len(results) - Len(CallResults)

\* C27: getProgress always reports processed <= total and percentage <= 100,
\* and when a scan of N URLs completes it reports processed = N, total = N
\* and percentage = 100, after any sequence of scans run on the same agent.
C27_ProgressWithinTotal ==
  /\ GetProgress.processed <= GetProgress.total
  /\ GetProgress.percentage <= 100
  /\ (ScanCompleted /\ Len(urls) > 0) =>
       /\ GetProgress.processed = Len(urls)
       /\ GetProgress.total = Len(urls)
       /\ GetProgress.percentage = 100

\* what the code does: processedCount counts every result the agent ever
\* pushed, while the total is that of the last call alone.  The report is
\* within its total in the first scan only; from the second scan on the
\* results of the earlier scans are counted too.  The compiled getProgress
\* takes twice the count as its total and never reports more than 50.
C27_ProgressAccumulates ==
  /\ GetProgress.processed = Len(results)
  /\ GetProgress.processed = EarlierResults + Len(CallResults)
  /\ GetProgress.total = Len(urls)
  /\ Len(CallResults) <= Len(urls)
  /\ ScanCompleted => Len(CallResults) = Len(urls)
  /\ EarlierResults = 0 =>
       /\ GetProgress.processed <= GetProgress.total
       /\ GetProgress.percentage <= 100
       /\ (ScanCompleted /\ Len(urls) > 0) => GetProgress.percentage = 100
  /\ (EarlierResults > 0 /\ ScanCompleted) =>
       GetProgress.processed > GetProgress.total
  /\ GetProgressCompiled.total = 2 * processedCount
  /\ GetProgressCompiled.percentage = IF processedCount > 0 THEN 50 ELSE 0

\* the count of processed URLs never decreases, within a scan or from one
\* scan to the next
C27_NeverDecreases == [][processedCount' >= processedCount]_vars

\* the agent scanned two URLs, then one: at the end of the second scan it
\* reports 3 processed of 1, 300 percent
C27_Witness ==
  /\ callNo = 2 /\ ScanCompleted
  /\ Len(urls) = 1
  /\ GetProgress = [processed |-> 3, total |-> 1, percentage |-> 300]
  /\ GetProgressCompiled.percentage = 50

\* ------------------------------------------------------------------ C29
\* the list categorizeResults puts a page in, under the name of the decision
\* category it stands for; needsClaudeAnalysis is what createWorker stored
\* with the result
ScannerTriage(page) ==
  LET list == ScannerCategoryOf(
                [result |-> page,
                 needsClaudeAnalysis |-> ScannerNeedsHumanAnalysis(page)])
  IN CASE list = "passed" -> "PASSED"
       [] list = "minorIssues" -> "MINOR_ISSUES"
       [] list = "claudeNeeded" -> "CLAUDE_NEEDED"
       [] list = "critical" -> "CRITICAL"

DecisionAgentDecided == PageDecided /\ agent = "DecisionAgent"

\* C29: for every PageScanResult, the list BulkScannerAgent.categorizeResults
\* puts it in is the category DecisionAgent.makeDecision assigns to the same
\* result.
C29_SameTriage ==
  DecisionAgentDecided => returned.category = ScannerTriage(inputPage)

\* what the code does: the two agree on failed pages only.  The scanner
\* tests "no violations" before anything else and sends a page that needs
\* no analysis to critical as soon as one violation is serious; the
\* decision agent tests the volume of serious violations first, counts
\* incomplete findings on a page without violations, and never makes a page
\* below the volume limit CRITICAL.
C29_TriageDiffers ==
  DecisionAgentDecided =>
    LET v == inputPage.violations
        severe == SevereCount(inputPage)
        flagged == ScannerNeedsHumanAnalysis(inputPage)
        scanner == ScannerTriage(inputPage)
        decided == returned.category
    IN /\ IsError(inputPage) => scanner = "CRITICAL" /\ decided = "CRITICAL"
       /\ (~IsError(inputPage) /\ v = << >>) =>
            /\ scanner = "PASSED"
            /\ decided = IF Len(inputPage.incomplete) > incompleteResultsLimit
                         THEN "CLAUDE_NEEDED" ELSE "PASSED"
       /\ (~IsError(inputPage) /\ severe >= criticalViolationsLimit) =>
            /\ decided = "CRITICAL"
            /\ scanner = IF flagged THEN "CLAUDE_NEEDED" ELSE "CRITICAL"
       /\ (~IsError(inputPage) /\ v # << >> /\ severe < criticalViolationsLimit) =>
            /\ decided \in {"CLAUDE_NEEDED", "MINOR_ISSUES"}
            /\ scanner = IF flagged THEN "CLAUDE_NEEDED"
                         ELSE IF severe > 0 THEN "CRITICAL"
                         ELSE "MINOR_ISSUES"
            /\ (~flagged /\ severe > 0) => decided # scanner

\* DecisionAgent decided an error-free page with one serious violation as
\* MINOR_ISSUES; categorizeResults puts the same page in critical
C29_Witness ==
  /\ DecisionAgentDecided /\ ~IsError(inputPage)
  /\ Len(inputPage.violations) = 1 /\ SevereCount(inputPage) = 1
  /\ returned.category = "MINOR_ISSUES"
  /\ ScannerTriage(inputPage) = "CRITICAL"

\* ------------------------------------------------------------------ C30
\* C30: with a finite URL list and every audit attempt ending, every worker
\* exits and scanPages returns or throws: no worker waits forever on the
\* queue or on another worker, and the queue is empty when the last worker
\* has left its loop.
C30_Terminates ==
  /\ [](pc = "launch" => <>(pc = "idle"))
  /\ [](pc = "awaitWorkers" => <>(pc = "awaitWorkers" /\ AllWorkersDone))
  /\ []((pc = "awaitWorkers" /\ AllWorkersDone) => workQueue = << >>)

\* a call with two workers and two URLs ended after one URL was given up:
\* both workers left their loops, one of them after a failed attempt
C30_Witness ==
  /\ CallEnded /\ outcome = "returned"
  /\ Len(urls) = 2 /\ DOMAIN workers = {0, 1}
  /\ AllWorkersDone /\ workQueue = << >>
  /\ \E w \in DOMAIN attemptLog : \E a \in Range(attemptLog[w]) : ~a.ok
  /\ \A w \in DOMAIN attemptLog : attemptLog[w] # << >>
====
